---------------------------- MODULE Spec2Model ----------------------------
(***************************************************************************)
(* Social publishing orchestrator of Feed-Genesis: the fan-out             *)
(* (uploadToSocialMedia), the client-side YouTube adapter                  *)
(* (uploadToYouTube) with its token check, and the server-side resumable   *)
(* upload handlers (youtube-upload, youtube-oauth upload_video,            *)
(* useYouTubeAuth.uploadVideo).                                            *)
(*                                                                         *)
(* Times are milliseconds, byte offsets are bytes, as in the source.       *)
(***************************************************************************)
EXTENDS Integers, Sequences, FiniteSets, TLC

(***************************************************************************)
(* Bounds of the model.                                                    *)
(***************************************************************************)
\* longest platform list handed to uploadToSocialMedia
MaxSelected == 3
\* the chunk PUTs of one upload that the history holds
MaxPuts == 4
\* largest payload, in whole chunks
MaxChunks == 2
\* rows ever inserted into user_social_connections
MaxRows == 3
\* most urls in carouselUrls of a request to instagram-post
MaxItems == 3
\* calls of connect() on one hook instance
MaxConnects == 3

(***************************************************************************)
(* Program constants.                                                      *)
(***************************************************************************)
\* if (timeToExpire <= 300000)
RefreshWindowMs == 300000
\* const chunkSize = 1024 * 1024 * 5
chunkSize == 1024 * 1024 * 5
\* if (videoSize > 128 * 1024 * 1024)
MaxVideoSize == 128 * 1024 * 1024

\* the clock when a run starts, and how long one network call may take
StartTime == 10 * 60 * 1000
Delays == {0, 60 * 1000}

\* a null column / a missing header is the empty sequence, a value v is <<v>>
Null == <<>>
Some(v) == <<v>>
IsNull(x) == x = <<>>
Val(x) == x[1]

\* the platforms a connection is ever stored for
Platforms == {"youtube", "instagram", "facebook"}

SeqToSet(s) == {s[i] : i \in DOMAIN s}
Includes(s, x) == \E i \in DOMAIN s : s[i] = x
NoRepeat(s) == \A i, j \in DOMAIN s : i # j => s[i] # s[j]
\* every ordering of the elements of a finite set
RECURSIVE Perms(_)
Perms(S) ==
  IF S = {} THEN {<<>>}
  ELSE UNION {{<<x>> \o p : p \in Perms(S \ {x})} : x \in S}
\* the sequences over S without a repeated element, of length at most n
SeqsUpTo(S, n) ==
  UNION {Perms(T) : T \in {U \in SUBSET S : Cardinality(U) <= n}}


(***************************************************************************)
(* Data.                                                                   *)
(***************************************************************************)
\* access tokens: the demo sentinel ('demo_access_token_<platform>'), the
\* stored token, the token a refresh returns
AccessTokens == {"demo", "tok0", "tok1"}

\* a row of user_social_connections of the current user; refresh_token "" is
\* a null column (falsy, as in the source's tests)
Row(p, active, token, refresh, expires) ==
  [platform |-> p, is_active |-> active, access_token |-> token,
   refresh_token |-> refresh, token_expires_at |-> expires]

\* SocialConnection, as getConnectedPlatforms maps it
Connection(p, token, refresh, expires) ==
  [platform |-> p, access_token |-> token,
   refresh_token |-> refresh, token_expires_at |-> expires]

\* UploadResult
Result(p, ok, err) == [platform |-> p, success |-> ok, error |-> err]

\* AssetToUpload: asset_type, and whether asset_url is set and is neither
\* 'processing' nor 'pending'
Assets == [asset_type : {"video", "image", "content"}, ready : BOOLEAN]

\* the answers of the token endpoint to grant_type=refresh_token: a 2xx with
\* expires_in (seconds; absent when null) and, when the refresh token is
\* rotated, a new refresh_token ("" when absent); a non-2xx; a network error
RefreshResponses ==
  [kind : {"ok"}, expires_in : {Null, Some(60), Some(3600)},
   refresh_token : {"", "rt1"}]
    \cup [kind : {"error", "throw"}, expires_in : {Null}, refresh_token : {""}]

VARIABLES
  \* the Credential Store: platform -> Null or Some(row), for the current user
  store,
  \* the clock (Date.now())
  now,
  \* uploadToSocialMedia's arguments
  asset, selectedPlatforms,
  \* where the call of uploadToSocialMedia is
  pc,
  \* selectedConnections, in the order the store listed them
  selectedConnections,
  \* per platform: where its job is, the connection object it holds, its result
  jobPc, jobConn, jobResult,
  \* what the call returned
  results,
  \* the hook's React state
  isUploading, uploadingPlatforms,
  \* history: the platforms whose adapter function was called, and the
  \* network calls made by the jobs
  adapterInvoked, calls

fanVars == <<store, now, asset, selectedPlatforms, pc, selectedConnections,
             jobPc, jobConn, jobResult, results, isUploading,
             uploadingPlatforms, adapterInvoked, calls>>

NoConn == Connection("", "", "", Null)

(***************************************************************************)
(* getConnectedPlatforms                                                   *)
(***************************************************************************)
\* the rows the query .eq('is_active', true) selects
ActivePlatforms(st) ==
  {p \in Platforms : ~IsNull(st[p]) /\ Val(st[p]).is_active}

\* the mapping of a row to a SocialConnection
MapRow(r) ==
  Connection(r.platform, r.access_token, r.refresh_token, r.token_expires_at)

\* the localStorage fallback taken on a database error: youtube only with an
\* expiry in the future, then instagram, then facebook
LocalStorages ==
  [youtube : {Some(StartTime - 1000), Some(StartTime + 3600 * 1000)},
   instagram : {Null, Some("demo")},
   facebook : {Null}]

LocalStoragePlatforms(ls, t) ==
  (IF ~IsNull(ls.youtube) /\ Val(ls.youtube) > t
     THEN <<Connection("youtube", "tok0", "", ls.youtube)>> ELSE <<>>)
  \o (IF ~IsNull(ls.instagram)
        THEN <<Connection("instagram", Val(ls.instagram), "", Null)>> ELSE <<>>)
  \o (IF ~IsNull(ls.facebook)
        THEN <<Connection("facebook", Val(ls.facebook), "", Null)>> ELSE <<>>)

\* what getConnectedPlatforms may return: the active rows in the order of
\* connected_at (any order), the localStorage fallback, or [] on an exception
ConnectedPlatformLists(st, t) ==
  {[i \in DOMAIN order |-> MapRow(Val(st[order[i]]))] :
      order \in Perms(ActivePlatforms(st))}
  \cup {LocalStoragePlatforms(ls, t) : ls \in LocalStorages}
  \cup {<<>>}

(***************************************************************************)
(* uploadToYouTube, uploadToInstagram, uploadToFacebook                    *)
(***************************************************************************)
\* a step of a job ends at its next await (pc) or with its result
Await(where, conn) == [pc |-> where, conn |-> conn, result |-> Null]
Return(conn, r) == [pc |-> "settle", conn |-> conn, result |-> Some(r)]

isTestConnection(conn) == conn.access_token = "demo"

\* uploadToYouTube from the final expiry check on
YouTubeAfterTokenCheck(a, conn, t) ==
  IF ~IsNull(conn.token_expires_at) /\ Val(conn.token_expires_at) <= t
    THEN Return(conn, Result("youtube", FALSE, "Token expired"))
  ELSE IF a.asset_type # "video"
    THEN Return(conn, Result("youtube", FALSE, "Unsupported asset type"))
  ELSE IF ~a.ready
    THEN Return(conn, Result("youtube", FALSE, "Asset not ready"))
  ELSE Await("invoke", conn)

\* the token check of uploadToYouTube: does it call the token endpoint
YouTubeNeedsRefresh(conn, t) ==
  /\ ~IsNull(conn.token_expires_at)
  /\ Val(conn.token_expires_at) - t <= RefreshWindowMs

\* uploadToYouTube up to its first await
YouTubeEntry(a, conn, t) ==
  IF isTestConnection(conn) THEN Await("timer", conn)
  ELSE IF YouTubeNeedsRefresh(conn, t) /\ conn.refresh_token # ""
    THEN Await("refresh", conn)
  ELSE YouTubeAfterTokenCheck(a, conn, t)

\* uploadToInstagram and uploadToFacebook up to their first await
PlaceholderEntry(conn) ==
  IF isTestConnection(conn) THEN Await("timer", conn)
  ELSE Return(conn, Result(conn.platform, FALSE, "Manual posting required"))

\* the switch of uploadToSocialMedia on connection.platform
AdapterEntry(a, conn, t) ==
  CASE conn.platform = "youtube" -> YouTubeEntry(a, conn, t)
    [] conn.platform \in {"instagram", "facebook"} -> PlaceholderEntry(conn)
    [] OTHER -> Return(conn, Result(conn.platform, FALSE, "Platform not supported"))

HasAdapter(p) == p \in {"youtube", "instagram", "facebook"}

\* the adapters out of which an exception can escape: uploadToInstagram and
\* uploadToFacebook have no try/catch of their own
ThrowingAdapters == {"instagram", "facebook"}


VARIABLES
  \* the upload handler that runs, and where it is
  impl, hpc,
  \* whether the body of the request was read
  bodyUsed,
  \* the size of the video behind videoUrl (of videoFile)
  videoBytes,
  \* the handler's locals: the row it read, accessToken, the answer to its
  \* refresh call, videoSize, start
  connection, accessToken, refreshResponse, videoSize, start,
  \* history: the clock at the token check, the Content-Range of every chunk
  \* PUT and the answer to it, every other network call
  checkedAt, puts, responses, fetches,
  \* the handler's response
  response

srvVars == <<impl, hpc, bodyUsed, videoBytes, connection, accessToken,
             refreshResponse, videoSize, start, checkedAt, puts, responses,
             fetches, response>>

VARIABLES
  \* SocialMediaUploadModal's React state
  isOpen, loadingPlatforms, connectedPlatforms, modalSelectedPlatforms,
  uploadResults, showResults,
  \* where loadConnectedPlatforms and handleUpload are, and whether the
  \* timer that closes the modal after a full success is pending
  loadPc, uploadPc, closeTimer,
  \* history: the platforms the last load selected by itself, and, from when
  \* the modal was closed during an upload, the number of network calls made
  \* and the jobs that had not ended
  autoSelected, closedAt

dlgVars == <<isOpen, loadingPlatforms, connectedPlatforms,
             modalSelectedPlatforms, uploadResults, showResults, loadPc,
             uploadPc, closeTimer, autoSelected, closedAt>>

VARIABLES
  \* the table user_social_connections, the rows of every user, and the id
  \* the next inserted row gets
  table, nextId

tblVars == <<table, nextId>>

VARIABLES
  \* the instagram-post function: where the handler is, the body of the
  \* request, the containerIds of the carousel branch, the id handed to
  \* media_publish, the handler's JSON response
  igPc, igRequest, containerIds, creationId, igResponse,
  \* history: the Graph API calls and the processing delay, in order
  igCalls

igVars == <<igPc, igRequest, containerIds, creationId, igResponse, igCalls>>

VARIABLES
  \* checkExistingConnection of useYouTubeAuth: where it is, the row it read,
  \* isConnected; the id of the youtube row of default_user in the store
  chkPc, chkConnection, isConnected, storeId,
  \* history: the row the check deleted and the time of the delete
  chkDeleted

chkVars == <<chkPc, chkConnection, isConnected, storeId, chkDeleted>>

VARIABLES
  \* one completeAuth: the code path, the user, where it is, what it reported
  authPath, authUser, authPc, authReported,
  \* history: the table when the completeAuth began; the last disconnect
  \* (who, which platform, the table before and after)
  tableAtStart, lastDisconnect

authVars == <<authPath, authUser, authPc, authReported, tableAtStart,
              lastDisconnect>>

VARIABLES
  \* the popup connect flow of useYouTubeAuth / useInstagramAuth:
  \* isConnecting; per call of connect(), the value of its const popup
  \* (-1 before the call, 0 for null, else a window), the calls whose
  \* handleMessage is registered on window, the calls whose checkClosed
  \* interval runs
  isConnecting, popup, listener, checkClosed,
  \* the windows whose .closed is true
  winClosed,
  \* history: how each call's flow ended ("pending" until then), and the
  \* connect() calls made while an earlier flow was pending
  outcome, secondConnects

popVars == <<isConnecting, popup, listener, checkClosed, winClosed, outcome,
             secondConnects>>

VARIABLES
  \* another call of uploadToSocialMedia on the same hook: where it is, the
  \* platforms it was called with, the platforms of its unfinished jobs
  otherPc, otherSelected, otherJobs

othVars == <<otherPc, otherSelected, otherJobs>>

extVars == <<chkVars, authVars, popVars, othVars>>

vars == <<fanVars, srvVars, dlgVars, tblVars, igVars, extVars>>

(***************************************************************************)
(* uploadToSocialMedia                                                     *)
(***************************************************************************)
\* setIsUploading(true); setUploadingPlatforms(selectedPlatforms);
\* then await getConnectedPlatforms()
BeginUpload ==
  /\ pc = "idle"
  /\ pc' = "loading"
  /\ isUploading' = TRUE
  /\ uploadingPlatforms' = selectedPlatforms
  /\ UNCHANGED <<store, now, asset, selectedPlatforms, selectedConnections,
                 jobPc, jobConn, jobResult, results, adapterInvoked, calls>>
  /\ UNCHANGED srvVars

  /\ UNCHANGED <<dlgVars, tblVars, igVars, extVars>>
\* connections.filter(conn => selectedPlatforms.includes(conn.platform))
SelectConnections(connections, sel) ==
  LET keep(conn) == Includes(sel, conn.platform)
  IN SelectSeq(connections, keep)

\* a faulty variant of StartedJobs: the jobs run one after the other, only
\* the first connection's job is started before a result is awaited
MutStartedJobsSequential(conns, a, t) ==
  [p \in Platforms |->
     IF conns # <<>> /\ conns[1].platform = p
       THEN AdapterEntry(a, conns[1], t)
       ELSE [pc |-> "none", conn |-> NoConn, result |-> Null]]

\* the job of every selected connection, run up to its first await
StartedJobs(conns, a, t) ==
  [p \in Platforms |->
     IF \E i \in DOMAIN conns : conns[i].platform = p
       THEN AdapterEntry(a, (CHOOSE c \in SeqToSet(conns) : c.platform = p), t)
       ELSE [pc |-> "none", conn |-> NoConn, result |-> Null]]

\* setUploadingPlatforms(prev => [...prev, connection.platform]), per job
AppendPlatforms(up, conns) ==
  up \o [i \in DOMAIN conns |-> conns[i].platform]

\* setUploadingPlatforms(prev => prev.filter(p => p !== connection.platform))
RemovePlatform(up, p) ==
  LET keep(q) == q # p IN SelectSeq(up, keep)

\* getConnectedPlatforms answers; the call returns [] when nothing is
\* connected or nothing selected is connected, and otherwise starts one job
\* per selected connection (selectedConnections.map)
LoadAndDispatch ==
  /\ pc = "loading"
  /\ \E connections \in ConnectedPlatformLists(store, now) :
       LET sc == SelectConnections(connections, selectedPlatforms)
           jobs == StartedJobs(sc, asset, now)
       IN IF Len(connections) = 0 \/ Len(sc) = 0
            THEN /\ pc' = "returned"
                 /\ results' = <<>>
                 /\ isUploading' = FALSE
                 /\ uploadingPlatforms' = <<>>
                 /\ UNCHANGED <<selectedConnections, jobPc, jobConn,
                                jobResult, adapterInvoked>>
            ELSE /\ pc' = "awaiting"
                 /\ selectedConnections' = sc
                 /\ jobPc' = [p \in Platforms |-> jobs[p].pc]
                 /\ jobConn' = [p \in Platforms |-> jobs[p].conn]
                 /\ jobResult' = [p \in Platforms |-> jobs[p].result]
                 /\ adapterInvoked' =
                      {sc[i].platform : i \in DOMAIN sc} \cap {p \in Platforms : HasAdapter(p)}
                 /\ uploadingPlatforms' = AppendPlatforms(uploadingPlatforms, sc)
                 /\ UNCHANGED <<results, isUploading>>
  /\ UNCHANGED <<store, now, asset, selectedPlatforms, calls>>
  /\ UNCHANGED srvVars

  /\ UNCHANGED <<dlgVars, tblVars, igVars, extVars>>
\* a job ends with a result: the map callback returns it and its finally
\* takes the platform out of uploadingPlatforms
Settle(p, step) ==
  /\ jobPc' = [jobPc EXCEPT ![p] = IF IsNull(step.result) THEN step.pc ELSE "fulfilled"]
  /\ jobConn' = [jobConn EXCEPT ![p] = step.conn]
  /\ jobResult' = [jobResult EXCEPT ![p] = step.result]
  /\ uploadingPlatforms' =
       IF IsNull(step.result) THEN uploadingPlatforms
       ELSE RemovePlatform(uploadingPlatforms, p)

\* a job whose adapter returned without awaiting anything
JobSettles(p) ==
  /\ jobPc[p] = "settle"
  /\ Settle(p, Return(jobConn[p], Val(jobResult[p])))
  /\ UNCHANGED <<store, now, asset, selectedPlatforms, pc, selectedConnections,
                 results, isUploading, adapterInvoked, calls>>
  /\ UNCHANGED srvVars

  /\ UNCHANGED <<dlgVars, tblVars, igVars, extVars>>
\* test mode: the simulated upload delay ends and the adapter reports success
TimerFires(p) ==
  /\ jobPc[p] = "timer"
  /\ Settle(p, Return(jobConn[p], Result(p, TRUE, "")))
  /\ UNCHANGED <<store, now, asset, selectedPlatforms, pc, selectedConnections,
                 results, isUploading, adapterInvoked, calls>>
  /\ UNCHANGED srvVars

  /\ UNCHANGED <<dlgVars, tblVars, igVars, extVars>>
\* an exception escapes the adapter: the finally of the map callback runs and
\* the job's promise rejects
AdapterThrows(p) ==
  /\ p \in ThrowingAdapters
  /\ jobPc[p] \in {"timer", "settle"}
  /\ jobPc' = [jobPc EXCEPT ![p] = "rejected"]
  /\ jobResult' = [jobResult EXCEPT ![p] = Null]
  /\ uploadingPlatforms' = RemovePlatform(uploadingPlatforms, p)
  /\ UNCHANGED <<store, now, asset, selectedPlatforms, pc, selectedConnections,
                 jobConn, results, isUploading, adapterInvoked, calls>>
  /\ UNCHANGED srvVars

  /\ UNCHANGED <<dlgVars, tblVars, igVars, extVars>>

\* a faulty variant of NewExpiresAt: expires_in taken for milliseconds
MutNewExpiresAtSeconds(t, expires_in) == t + expires_in

(***************************************************************************)
(* uploadToYouTube: the refresh, the store update, the invocation          *)
(***************************************************************************)
\* newExpiresAt = new Date(Date.now() + refreshData.expires_in * 1000)
NewExpiresAt(t, expires_in) == t + expires_in * 1000

\* connection.access_token = refreshData.access_token;
\* connection.token_expires_at = newExpiresAt
ClientRefreshed(conn, resp, t) ==
  [conn EXCEPT !.access_token = "tok1",
               !.token_expires_at = Some(NewExpiresAt(t, Val(resp.expires_in)))]

\* a 2xx whose body can be used: without expires_in the date is invalid and
\* toISOString throws
RefreshUsable(resp) == resp.kind = "ok" /\ ~IsNull(resp.expires_in)

\* .update({access_token, token_expires_at, updated_at}) on the youtube row
UpdateToken(st, token, expires) ==
  IF IsNull(st["youtube"]) THEN st
  ELSE [st EXCEPT !["youtube"] =
          Some([Val(st["youtube"]) EXCEPT !.access_token = token,
                                          !.token_expires_at = expires])]

\* the token endpoint answers the refresh of uploadToYouTube
ClientRefreshResponds ==
  /\ jobPc["youtube"] = "refresh"
  /\ \E resp \in RefreshResponses, d \in Delays :
       /\ now' = now + d
       /\ calls' = Append(calls, "token")
       /\ IF RefreshUsable(resp)
            THEN Settle("youtube",
                   Await("db_update", ClientRefreshed(jobConn["youtube"], resp, now')))
            ELSE Settle("youtube",
                   YouTubeAfterTokenCheck(asset, jobConn["youtube"], now'))
  /\ UNCHANGED <<store, asset, selectedPlatforms, pc, selectedConnections,
                 results, isUploading, adapterInvoked>>
  /\ UNCHANGED srvVars

  /\ UNCHANGED <<dlgVars, tblVars, igVars, extVars>>
\* the store answers the update of the refreshed token; its error is not
\* looked at
ClientUpdateResponds ==
  /\ jobPc["youtube"] = "db_update"
  /\ \E ok \in BOOLEAN, d \in Delays :
       /\ now' = now + d
       /\ calls' = Append(calls, "store")
       /\ store' = IF ok
                     THEN UpdateToken(store, jobConn["youtube"].access_token,
                                      jobConn["youtube"].token_expires_at)
                     ELSE store
       /\ Settle("youtube", YouTubeAfterTokenCheck(asset, jobConn["youtube"], now'))
  /\ UNCHANGED <<asset, selectedPlatforms, pc, selectedConnections,
                 results, isUploading, adapterInvoked>>
  /\ UNCHANGED srvVars

  /\ UNCHANGED <<dlgVars, tblVars, igVars, extVars>>
\* supabase.functions.invoke('youtube-oauth', upload_video) answers: success,
\* an error, or success: false
ClientInvokeResponds ==
  /\ jobPc["youtube"] = "invoke"
  /\ \E ok \in BOOLEAN :
       /\ calls' = Append(calls, "invoke")
       /\ Settle("youtube",
            Return(jobConn["youtube"],
                   IF ok THEN Result("youtube", TRUE, "")
                   ELSE Result("youtube", FALSE, "Direct upload blocked by CORS policy")))
  /\ UNCHANGED <<store, now, asset, selectedPlatforms, pc, selectedConnections,
                 results, isUploading, adapterInvoked>>
  /\ UNCHANGED srvVars

  /\ UNCHANGED <<dlgVars, tblVars, igVars, extVars>>
(***************************************************************************)
(* uploadToSocialMedia: Promise.all, catch, finally                        *)
(***************************************************************************)
JobPlatforms == {selectedConnections[i].platform : i \in DOMAIN selectedConnections}

\* a faulty variant of PromiseAllSettles: the call returns without the
\* finally block
MutPromiseAllSettlesNoFinally ==
  /\ pc = "awaiting"
  /\ \/ \E p \in JobPlatforms : jobPc[p] = "rejected"
     \/ \A p \in JobPlatforms : jobPc[p] = "fulfilled"
  /\ results' =
       IF \E p \in JobPlatforms : jobPc[p] = "rejected" THEN <<>>
       ELSE [i \in DOMAIN selectedConnections |->
               Val(jobResult[selectedConnections[i].platform])]
  /\ pc' = "returned"
  /\ UNCHANGED <<isUploading, uploadingPlatforms>>
  /\ UNCHANGED <<store, now, asset, selectedPlatforms, selectedConnections,
                 jobPc, jobConn, jobResult, adapterInvoked, calls>>
  /\ UNCHANGED srvVars

  /\ UNCHANGED <<dlgVars, tblVars, igVars, extVars>>

\* const results = await Promise.all(uploadPromises): the results in the
\* order of selectedConnections once every job has one, or the rejection of
\* the first job that throws, which the catch turns into []
PromiseAllSettles ==
  /\ pc = "awaiting"
  /\ \/ \E p \in JobPlatforms : jobPc[p] = "rejected"
     \/ \A p \in JobPlatforms : jobPc[p] = "fulfilled"
  /\ results' =
       IF \E p \in JobPlatforms : jobPc[p] = "rejected" THEN <<>>
       ELSE [i \in DOMAIN selectedConnections |->
               Val(jobResult[selectedConnections[i].platform])]
  /\ pc' = "returned"
  /\ isUploading' = FALSE
  /\ uploadingPlatforms' = <<>>
  /\ UNCHANGED <<store, now, asset, selectedPlatforms, selectedConnections,
                 jobPc, jobConn, jobResult, adapterInvoked, calls>>
  /\ UNCHANGED srvVars

  /\ UNCHANGED <<dlgVars, tblVars, igVars, extVars>>

(***************************************************************************)
(* The fan-out: one call of uploadToSocialMedia.                           *)
(***************************************************************************)
\* no upload handler runs
SrvIdle ==
  /\ impl = "none" /\ hpc = "idle" /\ bodyUsed = FALSE /\ videoBytes = 0
  /\ connection = Null /\ accessToken = "" /\ refreshResponse = Null
  /\ videoSize = 0 /\ start = 0 /\ checkedAt = Null
  /\ puts = <<>> /\ responses = <<>> /\ fetches = <<>> /\ response = Null

\* no call of uploadToSocialMedia was made
FanIdle ==
  /\ pc = "idle"
  /\ selectedConnections = <<>>
  /\ jobPc = [p \in Platforms |-> "none"]
  /\ jobConn = [p \in Platforms |-> NoConn]
  /\ jobResult = [p \in Platforms |-> Null]
  /\ results = <<>>
  /\ isUploading = FALSE
  /\ uploadingPlatforms = <<>>
  /\ adapterInvoked = {}
  /\ calls = <<>>

\* the modal was never opened
DlgIdle ==
  /\ isOpen = FALSE /\ loadingPlatforms = TRUE
  /\ connectedPlatforms = <<>> /\ modalSelectedPlatforms = <<>>
  /\ uploadResults = <<>> /\ showResults = FALSE
  /\ loadPc = "idle" /\ uploadPc = "idle" /\ closeTimer = FALSE
  /\ autoSelected = Null /\ closedAt = Null

\* the table of all users is not looked at
TblIdle == table = {} /\ nextId = 1

\* no connection check runs; the youtube row of the store has id 1
ChkIdle ==
  /\ chkPc = "idle" /\ chkConnection = Null /\ isConnected = FALSE
  /\ storeId = 1 /\ chkDeleted = Null

\* no completeAuth and no disconnect was made
AuthIdle ==
  /\ authPath = "none" /\ authUser = "none" /\ authPc = "idle"
  /\ authReported = "none" /\ tableAtStart = {} /\ lastDisconnect = Null

\* connect() was never called
PopIdle ==
  /\ isConnecting = FALSE
  /\ popup = [f \in 1..MaxConnects |-> -1]
  /\ listener = {} /\ checkClosed = {} /\ winClosed = {}
  /\ outcome = [f \in 1..MaxConnects |-> "none"]
  /\ secondConnects = 0

\* no other call of uploadToSocialMedia is made
OthIdle == otherPc = "idle" /\ otherSelected = <<>> /\ otherJobs = {}

ExtIdle == ChkIdle /\ AuthIdle /\ PopIdle /\ OthIdle

\* no request to instagram-post was made
IgIdle ==
  /\ igPc = "idle"
  /\ igRequest = [fields |-> FALSE, isCarousel |-> FALSE, carouselUrls |-> <<>>]
  /\ containerIds = <<>> /\ creationId = Null /\ igResponse = Null
  /\ igCalls = <<>>

\* the rows a platform may have in the store: none, a soft-deleted one, an
\* active one with the demo token or with a real token
StoreRows(p) ==
  CASE p = "youtube" ->
         {Null, Some(Row(p, TRUE, "demo", "", Null)),
          Some(Row(p, TRUE, "tok0", "", Null)),
          Some(Row(p, TRUE, "tok0", "rt0", Some(StartTime + 4 * 60 * 1000)))}
    [] p = "instagram" ->
         {Null, Some(Row(p, TRUE, "demo", "", Null)),
          Some(Row(p, TRUE, "tok0", "", Null))}
    [] OTHER ->
         {Null, Some(Row(p, FALSE, "tok0", "", Null)),
          Some(Row(p, TRUE, "demo", "", Null))}

FanStores ==
  {st \in [Platforms -> UNION {StoreRows(p) : p \in Platforms}] :
     \A p \in Platforms : st[p] \in StoreRows(p)}

Init ==
  /\ store \in FanStores
  /\ now = StartTime
  /\ asset \in {a \in Assets : a.ready /\ a.asset_type \in {"video", "image"}}
  /\ selectedPlatforms \in SeqsUpTo(Platforms, MaxSelected)
  /\ FanIdle
  /\ SrvIdle
  /\ DlgIdle
  /\ TblIdle
  /\ IgIdle
  /\ ExtIdle

Next ==
  \/ BeginUpload
  \/ LoadAndDispatch
  \/ \E p \in Platforms : JobSettles(p)
  \/ \E p \in Platforms : TimerFires(p)
  \/ \E p \in Platforms : AdapterThrows(p)
  \/ ClientRefreshResponds
  \/ ClientUpdateResponds
  \/ ClientInvokeResponds
  \/ PromiseAllSettles

Spec == Init /\ [][Next]_vars


(***************************************************************************)
(* The upload handlers: the youtube-upload function, the upload_video      *)
(* action of youtube-oauth, and useYouTubeAuth.uploadVideo ("direct").     *)
(***************************************************************************)
Impls == {"youtube_upload", "youtube_oauth", "direct"}

Min(a, b) == IF a <= b THEN a ELSE b

\* the handler's JSON response (what uploadVideo returns or throws)
Success == [success |-> TRUE, error |-> ""]
Failure(err) == [success |-> FALSE, error |-> err]

\* a network call other than a chunk PUT, with the access token it carries
\* ("" when it carries none) and whether it was answered with success
Fetch(to, token, ok) == [to |-> to, token |-> token, ok |-> ok]

\* a faulty variant of TokenExpiresSoon: a row without token_expires_at counts
\* as expired at the epoch
MutTokenExpiresSoonNullIsEpoch(row, t) ==
  (IF IsNull(row.token_expires_at) THEN 0 ELSE Val(row.token_expires_at)) - t
    <= RefreshWindowMs

\* timeToExpire <= 300000, for a row that has token_expires_at
TokenExpiresSoon(row, t) ==
  /\ ~IsNull(row.token_expires_at)
  /\ Val(row.token_expires_at) - t <= RefreshWindowMs

\* useYouTubeAuth.uploadVideo: new Date(connection.token_expires_at) > now;
\* the date of a null column is the epoch
DirectTokenValid(row, t) ==
  (IF IsNull(row.token_expires_at) THEN 0 ELSE Val(row.token_expires_at)) > t

\* the token check, from the row just read to the next await or the failure
TokenCheck(i, row, t) ==
  CASE i = "direct" ->
         IF DirectTokenValid(row, t)
           THEN [pc |-> "init", error |-> ""]
           ELSE [pc |-> "done",
                 error |-> "No valid YouTube access token found"]
    [] i = "youtube_oauth" ->
         IF ~TokenExpiresSoon(row, t) THEN [pc |-> "download", error |-> ""]
         ELSE IF row.refresh_token # "" THEN [pc |-> "refresh", error |-> ""]
         ELSE [pc |-> "done", error |-> "No refresh token available"]
    [] OTHER ->
         IF TokenExpiresSoon(row, t) /\ row.refresh_token # ""
           THEN [pc |-> "refresh", error |-> ""]
           ELSE [pc |-> "download", error |-> ""]

\* what follows the answer of the token endpoint: the update of the store, a
\* failure, or (youtube-upload, non-2xx) the download with the old token
AfterRefresh(i, resp) ==
  IF RefreshUsable(resp) THEN [pc |-> "persist", error |-> ""]
  ELSE IF i = "youtube_oauth"
    THEN [pc |-> "done", error |-> "Failed to refresh access token"]
  ELSE IF resp.kind = "error" THEN [pc |-> "download", error |-> ""]
  ELSE [pc |-> "done",
        error |-> IF resp.kind = "ok" THEN "Invalid time value" ELSE "fetch failed"]

\* the size guards of upload_video
SizeGuard(i, size) ==
  IF i # "youtube_oauth" THEN ""
  ELSE IF size = 0 THEN "Downloaded video file is empty (0 bytes)"
  ELSE IF size > MaxVideoSize THEN "Video file too large"
  ELSE ""

\* a faulty variant of ChunkEnd: the end is not clamped to the payload
MutChunkEndNoClamp(st, size) == st + chunkSize

\* const end = Math.min(start + chunkSize, videoArray.length)
ChunkEnd(st, size) == Min(st + chunkSize, size)

\* 'Content-Range': `bytes ${start}-${end - 1}/${videoArray.length}`
ContentRange(st, size) ==
  [first |-> st, last |-> ChunkEnd(st, size) - 1, total |-> size]

\* the loop condition: while (!uploadComplete), while (start < videoArray.length)
LoopContinues(i, st, size) == i # "youtube_oauth" \/ st < size

\* parseInt(range.split('-')[1]) of "bytes=<first>-<last>"
RangeEnd(range) == range.last

\* faulty variants of NextStart: the byte echoed in Range is sent again; a
\* whole chunkSize is assumed stored when there is no Range
MutNextStartNoIncrement(st, size, range) ==
  IF ~IsNull(range) THEN RangeEnd(Val(range)) ELSE ChunkEnd(st, size)

MutNextStartByChunkSize(st, size, range) ==
  IF ~IsNull(range) THEN RangeEnd(Val(range)) + 1 ELSE st + chunkSize

\* the 308 branch: the next start
NextStart(st, size, range) ==
  IF ~IsNull(range) THEN RangeEnd(Val(range)) + 1 ELSE ChunkEnd(st, size)

\* the answers to a chunk PUT: 200 or 201 with or without an id in the body,
\* 308 without a Range header or with one echoing the last byte stored (all of
\* the chunk, half of it, nothing of it), or an error status
PutResponses(span) ==
  [status : {200}, range : {Null}, id : BOOLEAN]
    \cup [status : {201, 500}, range : {Null}, id : {TRUE}]
    \cup [status : {308}, id : {FALSE},
          range : {Null} \cup
                  {Some([first |-> 0, last |-> r]) :
                     r \in {span.last, span.first - 1,
                            span.first + (span.last - span.first) \div 2} \cap Nat}]

Finish(resp) == hpc' = "done" /\ response' = Some(resp)

\* const { ... } = await req.json(), first read of the request body
SrvReadBody ==
  /\ hpc = "request"
  /\ bodyUsed' = TRUE
  /\ hpc' = IF impl = "youtube_oauth" THEN "dispatch" ELSE "select"
  /\ UNCHANGED <<impl, videoBytes, connection, accessToken, refreshResponse,
                 videoSize, start, checkedAt, puts, responses, fetches, response>>
  /\ UNCHANGED fanVars

  /\ UNCHANGED <<dlgVars, tblVars, igVars, extVars>>
\* youtube-oauth, action upload_video: await req.json() once more; a body
\* that was read cannot be read again
SrvReadBodyAgain ==
  /\ hpc = "dispatch"
  /\ IF bodyUsed
       THEN Finish(Failure("Body already consumed"))
       ELSE hpc' = "select" /\ UNCHANGED response
  /\ bodyUsed' = TRUE
  /\ UNCHANGED <<impl, videoBytes, connection, accessToken, refreshResponse,
                 videoSize, start, checkedAt, puts, responses, fetches>>
  /\ UNCHANGED fanVars

  /\ UNCHANGED <<dlgVars, tblVars, igVars, extVars>>
\* the store answers the select of the active youtube row; the token check
SrvSelectResponds ==
  /\ hpc = "select"
  /\ IF IsNull(store["youtube"]) \/ ~Val(store["youtube"]).is_active
       THEN /\ Finish(Failure("YouTube account not connected"))
            /\ UNCHANGED <<connection, accessToken, checkedAt, videoSize>>
       ELSE LET row == Val(store["youtube"])
                go == TokenCheck(impl, row, now)
            IN /\ connection' = Some(row)
               /\ accessToken' = row.access_token
               /\ checkedAt' = Some(now)
               /\ videoSize' = IF impl = "direct" THEN videoBytes ELSE videoSize
               /\ IF go.pc = "done"
                    THEN Finish(Failure(go.error))
                    ELSE hpc' = go.pc /\ UNCHANGED response
  /\ UNCHANGED <<impl, bodyUsed, videoBytes, refreshResponse, start, puts,
                 responses, fetches>>
  /\ UNCHANGED fanVars

  /\ UNCHANGED <<dlgVars, tblVars, igVars, extVars>>
\* the token endpoint answers the refresh
SrvRefreshResponds ==
  /\ hpc = "refresh"
  /\ \E resp \in RefreshResponses, d \in Delays :
       LET go == AfterRefresh(impl, resp)
       IN /\ now' = now + d
          /\ refreshResponse' = Some(resp)
          /\ fetches' = Append(fetches, Fetch("token", "", resp.kind = "ok"))
          /\ accessToken' = IF resp.kind = "ok" THEN "tok1" ELSE accessToken
          /\ IF go.pc = "done"
               THEN Finish(Failure(go.error))
               ELSE hpc' = go.pc /\ UNCHANGED response
  /\ UNCHANGED <<impl, bodyUsed, videoBytes, connection, videoSize, start,
                 checkedAt, puts, responses>>
  /\ UNCHANGED <<store, asset, selectedPlatforms, pc, selectedConnections, jobPc,
                 jobConn, jobResult, results, isUploading, uploadingPlatforms,
                 adapterInvoked, calls>>

  /\ UNCHANGED <<dlgVars, tblVars, igVars, extVars>>
\* the store answers the update of the refreshed token; an error is at most
\* logged
SrvPersistResponds ==
  /\ hpc = "persist"
  /\ \E ok \in BOOLEAN :
       /\ fetches' = Append(fetches, Fetch("store", accessToken, ok))
       /\ store' =
            IF ok
              THEN UpdateToken(store, accessToken,
                     Some(NewExpiresAt(now, Val(Val(refreshResponse).expires_in))))
              ELSE store
  /\ hpc' = "download"
  /\ UNCHANGED <<impl, bodyUsed, videoBytes, connection, accessToken,
                 refreshResponse, videoSize, start, checkedAt, puts, responses,
                 response>>
  /\ UNCHANGED <<now, asset, selectedPlatforms, pc, selectedConnections, jobPc,
                 jobConn, jobResult, results, isUploading, uploadingPlatforms,
                 adapterInvoked, calls>>

  /\ UNCHANGED <<dlgVars, tblVars, igVars, extVars>>
\* fetch(videoUrl) answers; the size guards
SrvDownloadResponds ==
  /\ hpc = "download"
  /\ \E ok \in BOOLEAN :
       /\ fetches' = Append(fetches, Fetch("video", "", ok))
       /\ IF ~ok THEN /\ Finish(Failure("Failed to fetch video"))
                      /\ UNCHANGED videoSize
          ELSE /\ videoSize' = videoBytes
               /\ IF SizeGuard(impl, videoBytes) # ""
                    THEN Finish(Failure(SizeGuard(impl, videoBytes)))
                    ELSE hpc' = "init" /\ UNCHANGED response
  /\ UNCHANGED <<impl, bodyUsed, videoBytes, connection, accessToken,
                 refreshResponse, start, checkedAt, puts, responses>>
  /\ UNCHANGED fanVars

  /\ UNCHANGED <<dlgVars, tblVars, igVars, extVars>>
\* a faulty variant of InitError: the Location header is not looked at
MutInitErrorNoLocationCheck(r) ==
  IF r = "rejected" THEN "Upload initialization failed" ELSE ""

\* what the handler makes of the answer to the init POST: the error it
\* throws, "" when it has a session URL
InitError(r) ==
  IF r = "rejected" THEN "Upload initialization failed"
  ELSE IF r = "no_location" THEN "No upload URL received from YouTube"
  ELSE ""

\* the upload endpoint answers the init POST: a session URL in Location, no
\* Location, or a rejection
SrvInitResponds ==
  /\ hpc = "init"
  /\ \E r \in {"location", "no_location", "rejected"} :
       /\ fetches' = Append(fetches, Fetch("init", accessToken, r = "location"))
       /\ IF InitError(r) = ""
            THEN /\ start' = 0
                 /\ hpc' = "loop"
                 /\ UNCHANGED response
            ELSE /\ Finish(Failure(InitError(r)))
                 /\ UNCHANGED start
  /\ UNCHANGED <<impl, bodyUsed, videoBytes, connection, accessToken,
                 refreshResponse, videoSize, checkedAt, puts, responses>>
  /\ UNCHANGED fanVars

  /\ UNCHANGED <<dlgVars, tblVars, igVars, extVars>>
\* the head of the loop: its condition, then the PUT of the next chunk; when
\* the condition fails there is no result (no video id). The history holds
\* MaxPuts PUTs; a PUT beyond them repeats the last one and is not added.
SrvSendChunk ==
  /\ hpc = "loop"
  /\ IF LoopContinues(impl, start, videoSize)
       THEN /\ hpc' = "put"
            /\ puts' = IF Len(puts) < MaxPuts
                         THEN Append(puts, ContentRange(start, videoSize))
                         ELSE puts
            /\ UNCHANGED response
       ELSE /\ Finish(Failure("Upload completed but no video ID received"))
            /\ UNCHANGED puts
  /\ UNCHANGED <<impl, bodyUsed, videoBytes, connection, accessToken,
                 refreshResponse, videoSize, start, checkedAt, responses, fetches>>
  /\ UNCHANGED fanVars

  /\ UNCHANGED <<dlgVars, tblVars, igVars, extVars>>
\* a faulty variant of PutOutcome: a status that is neither success nor 308
\* is taken for a 308
MutPutOutcomeRetry(status) ==
  IF status \in {200, 201} THEN "complete" ELSE "continue"

\* the branches on uploadResponse.status
PutOutcome(status) ==
  IF status \in {200, 201} THEN "complete"
  ELSE IF status = 308 THEN "continue"
  ELSE "fail"

\* the result after a 200 or 201: the id of the body is the video id;
\* useYouTubeAuth.uploadVideo returns the body as it is
CompleteResult(i, resp) ==
  IF resp.id \/ i = "direct" THEN Success
  ELSE Failure("Upload completed but no video ID received")

\* the chunk loop as a function of the answers of the session URL: the
\* Content-Range spans it sends, in order, and the result it ends with (Null
\* while it waits for the answer to the last span)
RECURSIVE LoopTrace(_, _, _, _, _)
LoopTrace(i, size, st, answers, sent) ==
  IF ~LoopContinues(i, st, size)
    THEN [puts |-> sent,
          outcome |-> Some(Failure("Upload completed but no video ID received"))]
  ELSE LET sent2 == Append(sent, ContentRange(st, size))
       IN IF answers = <<>> THEN [puts |-> sent2, outcome |-> Null]
          ELSE LET resp == Head(answers)
               IN CASE PutOutcome(resp.status) = "complete" ->
                         [puts |-> sent2, outcome |-> Some(CompleteResult(i, resp))]
                    [] PutOutcome(resp.status) = "continue" ->
                         LoopTrace(i, size, NextStart(st, size, resp.range),
                                   Tail(answers), sent2)
                    [] OTHER ->
                         [puts |-> sent2, outcome |-> Some(Failure("Upload failed"))]

\* the session URL answers a chunk PUT. Once the history is full, the loop
\* is followed only through answers after which it sends the same chunk
\* again.
SrvPutResponds ==
  /\ hpc = "put"
  /\ \E resp \in PutResponses(ContentRange(start, videoSize)) :
       /\ PutOutcome(resp.status) = "continue" =>
            (Len(puts) < MaxPuts \/ NextStart(start, videoSize, resp.range) = start)
       /\ responses' = IF Len(responses) < Len(puts)
                         THEN Append(responses, resp) ELSE responses
       /\ CASE PutOutcome(resp.status) = "complete" ->
                 /\ Finish(CompleteResult(impl, resp))
                 /\ UNCHANGED start
            [] PutOutcome(resp.status) = "continue" ->
                 /\ start' = NextStart(start, videoSize, resp.range)
                 /\ hpc' = "loop"
                 /\ UNCHANGED response
            [] OTHER ->
                 /\ Finish(Failure("Upload failed"))
                 /\ UNCHANGED start
  /\ UNCHANGED <<impl, bodyUsed, videoBytes, connection, accessToken,
                 refreshResponse, videoSize, checkedAt, puts, fetches>>
  /\ UNCHANGED fanVars

  /\ UNCHANGED <<dlgVars, tblVars, igVars, extVars>>
SrvNext ==
  \/ SrvReadBody
  \/ SrvReadBodyAgain
  \/ SrvSelectResponds
  \/ SrvRefreshResponds
  \/ SrvPersistResponds
  \/ SrvDownloadResponds
  \/ SrvInitResponds
  \/ SrvSendChunk
  \/ SrvPutResponds

\* the expiries a stored token may have, around the clock and the window
Expiries ==
  {Null, Some(StartTime - 1000), Some(StartTime + 30 * 1000),
   Some(StartTime + 4 * 60 * 1000), Some(StartTime + RefreshWindowMs),
   Some(StartTime + RefreshWindowMs + 1), Some(StartTime + 3600 * 1000)}

\* the active youtube rows with a real token
YouTubeRows ==
  {Some(Row("youtube", TRUE, "tok0", rt, e)) : rt \in {"", "rt0"}, e \in Expiries}

\* payload sizes around the chunk boundaries, and one above the maximum
Sizes ==
  {n \in {k * chunkSize + d : k \in 0..MaxChunks, d \in {-1, 0, 1}} : n >= 0}
    \cup {MaxVideoSize + 1}

\* a request arrives at one of the handlers (uploadVideo is called)
SrvStart(rows, sizes) ==
  /\ impl \in Impls
  /\ hpc = (IF impl = "direct" THEN "select" ELSE "request")
  /\ store \in {[p \in Platforms |-> IF p = "youtube" THEN r ELSE Null] : r \in rows}
  /\ videoBytes \in sizes
  /\ now = StartTime
  /\ bodyUsed = FALSE
  /\ connection = Null /\ accessToken = "" /\ refreshResponse = Null
  /\ videoSize = 0 /\ start = 0 /\ checkedAt = Null
  /\ puts = <<>> /\ responses = <<>> /\ fetches = <<>> /\ response = Null
  /\ asset = [asset_type |-> "video", ready |-> TRUE]
  /\ selectedPlatforms = <<>>
  /\ FanIdle
  /\ DlgIdle
  /\ TblIdle
  /\ IgIdle
  /\ ExtIdle

\* every credential, one payload
InitToken == SrvStart(YouTubeRows \cup {Null}, {chunkSize + 1})

\* every payload, a credential that needs no refresh and one that does
InitUpload ==
  SrvStart({Some(Row("youtube", TRUE, "tok0", "rt0", e)) :
              e \in {Null, Some(StartTime + 4 * 60 * 1000)}}, Sizes)

SpecToken == InitToken /\ [][SrvNext]_vars

SpecUpload == InitUpload /\ [][SrvNext]_vars

\* the handler takes its next step whenever the call it awaits is answered
SpecLoop == InitUpload /\ [][SrvNext]_vars /\ WF_vars(SrvNext)


(***************************************************************************)
(* SocialMediaUploadModal                                                  *)
(***************************************************************************)
\* the platforms the modal knows (platformIcons)
ModalPlatforms == Platforms \cup {"linkedin", "twitter"}

\* isPlatformCompatible
isPlatformCompatible(a, platform) ==
  CASE a.asset_type = "video" -> platform \in {"youtube", "facebook"}
    [] a.asset_type = "image" -> platform \in {"instagram", "facebook"}
    [] a.asset_type = "content" -> platform \in {"twitter", "linkedin", "facebook"}
    [] OTHER -> FALSE

\* loadConnectedPlatforms: the filter of the auto-selection
AutoSelects(a, platform) ==
  CASE a.asset_type = "video" -> platform \in {"youtube", "facebook"}
    [] a.asset_type = "image" -> platform \in {"instagram", "facebook"}
    [] OTHER -> FALSE

PlatformsOf(conns) == [i \in DOMAIN conns |-> conns[i].platform]

\* the trigger is clicked: setIsOpen(true), and the effect on isOpen calls
\* loadConnectedPlatforms, which awaits getConnectedPlatforms
OpenModal ==
  /\ ~isOpen /\ loadPc = "idle"
  /\ isOpen' = TRUE
  /\ loadingPlatforms' = TRUE
  /\ loadPc' = "loading"
  /\ UNCHANGED <<connectedPlatforms, modalSelectedPlatforms, uploadResults,
                 showResults, uploadPc, closeTimer, autoSelected, closedAt>>
  /\ UNCHANGED <<fanVars, srvVars, tblVars, igVars, extVars>>

\* getConnectedPlatforms answers loadConnectedPlatforms: the connections are
\* kept and the compatible ones are selected
PlatformsLoaded ==
  /\ loadPc = "loading"
  /\ \E platforms \in ConnectedPlatformLists(store, now) :
       LET auto(conn) == AutoSelects(asset, conn.platform)
           sel == PlatformsOf(SelectSeq(platforms, auto))
       IN /\ connectedPlatforms' = platforms
          /\ modalSelectedPlatforms' = sel
          /\ autoSelected' = Some(sel)
  /\ loadingPlatforms' = FALSE
  /\ loadPc' = "idle"
  /\ UNCHANGED <<isOpen, uploadResults, showResults, uploadPc, closeTimer,
                 closedAt>>
  /\ UNCHANGED <<fanVars, srvVars, tblVars, igVars, extVars>>

\* the platform list with its Cancel and Upload buttons is on screen
SelectionShown ==
  isOpen /\ ~showResults /\ ~loadingPlatforms /\ connectedPlatforms # <<>>

\* handlePlatformToggle, from the card of a compatible connected platform
HandlePlatformToggle(p) ==
  /\ SelectionShown
  /\ Includes(PlatformsOf(connectedPlatforms), p)
  /\ isPlatformCompatible(asset, p)
  /\ modalSelectedPlatforms' =
       IF Includes(modalSelectedPlatforms, p)
         THEN RemovePlatform(modalSelectedPlatforms, p)
         ELSE Append(modalSelectedPlatforms, p)
  /\ UNCHANGED <<isOpen, loadingPlatforms, connectedPlatforms, uploadResults,
                 showResults, loadPc, uploadPc, closeTimer, autoSelected,
                 closedAt>>
  /\ UNCHANGED <<fanVars, srvVars, tblVars, igVars, extVars>>

\* handleUpload up to its await: uploadToSocialMedia(asset, selectedPlatforms)
\* runs up to its own first await. The button is disabled while isUploading.
HandleUpload ==
  /\ SelectionShown
  /\ modalSelectedPlatforms # <<>> /\ ~isUploading
  /\ pc = "idle" /\ uploadPc = "idle"
  /\ uploadPc' = "awaiting"
  /\ selectedPlatforms' = modalSelectedPlatforms
  /\ pc' = "loading"
  /\ isUploading' = TRUE
  /\ uploadingPlatforms' = modalSelectedPlatforms
  /\ UNCHANGED <<store, now, asset, selectedConnections, jobPc, jobConn,
                 jobResult, results, adapterInvoked, calls>>
  /\ UNCHANGED <<isOpen, loadingPlatforms, connectedPlatforms,
                 modalSelectedPlatforms, uploadResults, showResults, loadPc,
                 closeTimer, autoSelected, closedAt>>
  /\ UNCHANGED <<srvVars, tblVars, igVars, extVars>>

\* results.every(r => r.success)
EverySuccess(rs) == \A i \in DOMAIN rs : rs[i].success

\* uploadToSocialMedia returned: the results are shown, and when all of them
\* are successes the timer that closes the modal is set
HandleUploadReturns ==
  /\ uploadPc = "awaiting" /\ pc = "returned"
  /\ uploadPc' = "done"
  /\ uploadResults' = results
  /\ showResults' = TRUE
  /\ closeTimer' = EverySuccess(results)
  /\ UNCHANGED <<isOpen, loadingPlatforms, connectedPlatforms,
                 modalSelectedPlatforms, loadPc, autoSelected, closedAt>>
  /\ UNCHANGED <<fanVars, srvVars, tblVars, igVars, extVars>>

\* the timer set after a full success fires
CloseTimerFires ==
  /\ closeTimer
  /\ closeTimer' = FALSE
  /\ isOpen' = FALSE
  /\ showResults' = FALSE
  /\ uploadResults' = <<>>
  /\ UNCHANGED <<loadingPlatforms, connectedPlatforms, modalSelectedPlatforms,
                 loadPc, uploadPc, autoSelected, closedAt>>
  /\ UNCHANGED <<fanVars, srvVars, tblVars, igVars, extVars>>

\* a call of uploadToSocialMedia is running
UploadInFlight == pc \in {"loading", "awaiting"}

\* the platforms whose job has not ended: all the selected ones before the
\* dispatch, afterwards those whose promise has not settled
PendingJobs ==
  IF pc = "loading" THEN SeqToSet(selectedPlatforms)
  ELSE {p \in JobPlatforms : jobPc[p] \notin {"fulfilled", "rejected"}}

\* handleModalClose, from the Cancel button (also shown during an upload)
HandleModalClose ==
  /\ SelectionShown
  /\ isOpen' = FALSE
  /\ showResults' = FALSE
  /\ uploadResults' = <<>>
  /\ modalSelectedPlatforms' = <<>>
  /\ closedAt' = IF UploadInFlight /\ IsNull(closedAt)
                   THEN Some([calls |-> Len(calls), jobs |-> PendingJobs])
                   ELSE closedAt
  /\ UNCHANGED <<loadingPlatforms, connectedPlatforms, loadPc, uploadPc,
                 closeTimer, autoSelected>>
  /\ UNCHANGED <<fanVars, srvVars, tblVars, igVars, extVars>>

\* the stores the modal is opened on: youtube with a token to refresh,
\* instagram with a real token, facebook with the demo token
ModalStores ==
  {st \in FanStores :
     /\ st["youtube"] \in
          {Null, Some(Row("youtube", TRUE, "tok0", "rt0",
                          Some(StartTime + 4 * 60 * 1000)))}
     /\ st["instagram"] \in {Null, Some(Row("instagram", TRUE, "tok0", "", Null))}
     /\ st["facebook"] \in {Null, Some(Row("facebook", TRUE, "demo", "", Null))}}

InitModal ==
  /\ store \in ModalStores
  /\ now = StartTime
  /\ asset \in {a \in Assets : a.ready}
  /\ selectedPlatforms = <<>>
  /\ FanIdle
  /\ SrvIdle
  /\ DlgIdle
  /\ TblIdle
  /\ IgIdle
  /\ ExtIdle

NextModal ==
  \/ OpenModal
  \/ PlatformsLoaded
  \/ \E p \in Platforms : HandlePlatformToggle(p)
  \/ HandleUpload
  \/ HandleUploadReturns
  \/ CloseTimerFires
  \/ HandleModalClose
  \/ LoadAndDispatch
  \/ \E p \in Platforms : JobSettles(p)
  \/ \E p \in Platforms : TimerFires(p)
  \/ \E p \in Platforms : AdapterThrows(p)
  \/ ClientRefreshResponds
  \/ ClientUpdateResponds
  \/ ClientInvokeResponds
  \/ PromiseAllSettles

SpecModal == InitModal /\ [][NextModal]_vars

(***************************************************************************)
(* The table user_social_connections and the operations that write it.     *)
(***************************************************************************)
\* user_id: 'default_user' and one other user
Users == {"default_user", "user2"}

\* a faulty variant of UniqueKey: the row's id is part of the key
MutUniqueKeyWithId(r) == <<r.id, r.user_id, r.platform>>

\* UNIQUE(user_id, platform): the key of the unique index, which is also the
\* arbiter of upsert(..., {onConflict: 'user_id,platform'})
UniqueKey(r) == <<r.user_id, r.platform>>

\* INSERT ... ON CONFLICT (user_id, platform) DO UPDATE: a row with the key
\* of the new one takes the columns of the payload (is_active only when the
\* payload has it); without such a row the new row is inserted, is_active
\* defaulting to true
Upsert(tbl, id, u, p, token, setsActive) ==
  LET new == [id |-> id, user_id |-> u, platform |-> p, is_active |-> TRUE,
              access_token |-> token]
      hit == {r \in tbl : UniqueKey(r) = UniqueKey(new)}
  IN IF hit = {} THEN tbl \cup {new}
     ELSE (tbl \ hit) \cup
            {[r EXCEPT !.access_token = token,
                       !.is_active = IF setsActive THEN TRUE ELSE r.is_active] :
               r \in hit}

\* completeAuth: exchange_code of youtube-oauth and the instagram-oauth
\* callback (payload without is_active), YouTubeCallback (is_active: true)
CompleteAuth ==
  \E u \in Users, p \in {"youtube", "instagram"}, token \in {"tok0", "tok1"},
     setsActive \in BOOLEAN :
    /\ (p = "instagram") => ~setsActive
    /\ table' = Upsert(table, nextId, u, p, token, setsActive)
    /\ Cardinality(table') > Cardinality(table) => nextId <= MaxRows
    /\ nextId' = IF Cardinality(table') > Cardinality(table)
                   THEN nextId + 1 ELSE nextId
    /\ UNCHANGED <<fanVars, srvVars, dlgVars, igVars, extVars>>

\* a token refresh: .update({access_token, ...}) of the youtube row of a
\* user (refresh_token action), or of the row with the id that was read
\* (youtube-upload)
TableRefresh ==
  \E r \in table :
    /\ r.platform = "youtube"
    /\ table' = {IF x.user_id = r.user_id /\ x.platform = r.platform
                   THEN [x EXCEPT !.access_token = "tok1"] ELSE x : x \in table}
    /\ table' # table
    /\ UNCHANGED nextId
    /\ UNCHANGED <<fanVars, srvVars, dlgVars, igVars, extVars>>

\* YouTubeConnectionManager.disconnect: .update({is_active: false}) of the
\* active row it had read
SoftDisconnect ==
  \E r \in table :
    /\ r.is_active
    /\ table' = {IF x.id = r.id THEN [x EXCEPT !.is_active = FALSE] ELSE x :
                   x \in table}
    /\ UNCHANGED nextId
    /\ UNCHANGED <<fanVars, srvVars, dlgVars, igVars, extVars>>

\* the disconnect actions: .delete().eq('user_id', u).eq('platform', p)
HardDisconnect ==
  \E r \in table :
    /\ table' = {x \in table : ~(x.user_id = r.user_id /\ x.platform = r.platform)}
    /\ UNCHANGED nextId
    /\ UNCHANGED <<fanVars, srvVars, dlgVars, igVars, extVars>>

InitTable ==
  /\ table = {} /\ nextId = 1
  /\ store = [p \in Platforms |-> Null]
  /\ now = StartTime
  /\ asset = [asset_type |-> "video", ready |-> TRUE]
  /\ selectedPlatforms = <<>>
  /\ FanIdle
  /\ SrvIdle
  /\ DlgIdle
  /\ IgIdle
  /\ ExtIdle

NextTable ==
  \/ CompleteAuth
  \/ TableRefresh
  \/ SoftDisconnect
  \/ HardDisconnect

SpecTable == InitTable /\ [][NextTable]_vars

(***************************************************************************)
(* The instagram-post function: one request.                               *)
(***************************************************************************)
\* the image urls of a carousel
ImageUrls == {"u1", "u2"}

\* the bodies of a request: whether userId, imageUrl and caption are all
\* there, isCarousel, carouselUrls
IgRequests ==
  [fields : BOOLEAN, isCarousel : BOOLEAN,
   carouselUrls : UNION {[1..n -> ImageUrls] : n \in 0..MaxItems}]

\* the ids the Graph API gives to what it creates: the children, the parent,
\* the post
ContainerIds == 1..(MaxItems + 2)

\* the instagram rows of the user: none, one without expiry, an expired one,
\* one that expires in an hour
InstagramRows ==
  {Null} \cup {Some(Row("instagram", TRUE, "tok0", "", e)) :
                 e \in {Null, Some(StartTime - 1000), Some(StartTime + 3600 * 1000)}}

\* a call of the Graph API and its answer: POST /media for a single image
\* ("container"), for a carousel item ("child"), for the carousel
\* ("parent"), POST /media_publish ("publish"); and the setTimeout of the
\* single image branch ("delay")
IgCall(kind, url, children, creation, ok, id) ==
  [kind |-> kind, url |-> url, children |-> children, creation_id |-> creation,
   ok |-> ok, id |-> id]

\* setTimeout(resolve, 2000)
ProcessingDelayMs == 2000

IgDelay == IgCall("delay", "", <<>>, Null, TRUE, Null)

\* the answers to a POST: a 2xx whose body carries the id of the container
\* (or post) created, which no earlier answer carried; or a non-2xx
IgAnswers ==
  {[ok |-> TRUE, id |-> Some(i)] :
     i \in ContainerIds \ {Val(igCalls[k].id) :
                             k \in {j \in DOMAIN igCalls : ~IsNull(igCalls[j].id)}}}
    \cup {[ok |-> FALSE, id |-> Null]}

IgFinish(resp) == igPc' = "done" /\ igResponse' = Some(resp)

\* if (isCarousel && carouselUrls.length > 1)
IsCarouselBranch(req) == req.isCarousel /\ Len(req.carouselUrls) > 1

\* the try block up to the first await: the body is read and its required
\* fields are looked at
IgReadBody ==
  /\ igPc = "request"
  /\ IF ~igRequest.fields
       THEN IgFinish(Failure("Missing required fields: userId, imageUrl, caption"))
       ELSE igPc' = "select" /\ UNCHANGED igResponse
  /\ UNCHANGED <<igRequest, containerIds, creationId, igCalls>>
  /\ UNCHANGED <<fanVars, srvVars, dlgVars, tblVars, extVars>>

\* the select of the instagram row answers (.single()); the expiry check;
\* the branch on isCarousel
IgSelectResponds ==
  /\ igPc = "select"
  /\ \E connectionError \in BOOLEAN :
       LET row == store["instagram"]
       IN IF connectionError \/ IsNull(row)
            THEN IgFinish(Failure("Instagram account not connected"))
          ELSE IF /\ ~IsNull(Val(row).token_expires_at)
                  /\ Val(Val(row).token_expires_at) < now
            THEN IgFinish(Failure("Instagram access token has expired"))
          ELSE /\ igPc' = IF IsCarouselBranch(igRequest) THEN "child" ELSE "container"
               /\ UNCHANGED igResponse
  /\ UNCHANGED <<igRequest, containerIds, creationId, igCalls>>
  /\ UNCHANGED <<fanVars, srvVars, dlgVars, tblVars, extVars>>

\* a faulty variant of PushId: the id is put in front
MutPushIdInFront(ids, id) == <<id>> \o ids

\* containerIds.push(containerData.id)
PushId(ids, id) == Append(ids, id)

\* for (const url of carouselUrls): the POST for one item answers
IgChildResponds ==
  /\ igPc = "child"
  /\ \E ans \in IgAnswers :
       LET url == igRequest.carouselUrls[Len(containerIds) + 1]
       IN /\ igCalls' = Append(igCalls, IgCall("child", url, <<>>, Null, ans.ok, ans.id))
          /\ IF ~ans.ok
               THEN /\ IgFinish(Failure("Failed to upload carousel item"))
                    /\ UNCHANGED containerIds
               ELSE /\ containerIds' = PushId(containerIds, Val(ans.id))
                    /\ igPc' = IF Len(containerIds') = Len(igRequest.carouselUrls)
                                 THEN "parent" ELSE "child"
                    /\ UNCHANGED igResponse
  /\ UNCHANGED <<igRequest, creationId>>
  /\ UNCHANGED <<fanVars, srvVars, dlgVars, tblVars, extVars>>

\* the POST of the carousel container (children: containerIds) answers
IgParentResponds ==
  /\ igPc = "parent"
  /\ \E ans \in IgAnswers :
       /\ igCalls' = Append(igCalls,
                       IgCall("parent", "", containerIds, Null, ans.ok, ans.id))
       /\ IF ~ans.ok
            THEN /\ IgFinish(Failure("Failed to create carousel"))
                 /\ UNCHANGED creationId
            ELSE /\ creationId' = ans.id
                 /\ igPc' = "carousel_publish"
                 /\ UNCHANGED igResponse
  /\ UNCHANGED <<igRequest, containerIds>>
  /\ UNCHANGED <<fanVars, srvVars, dlgVars, tblVars, extVars>>

\* media_publish of the carousel (creation_id: carouselData.id) answers
IgCarouselPublishResponds ==
  /\ igPc = "carousel_publish"
  /\ \E ans \in IgAnswers :
       /\ igCalls' = Append(igCalls,
                       IgCall("publish", "", <<>>, creationId, ans.ok, ans.id))
       /\ IgFinish(IF ans.ok THEN Success ELSE Failure("Failed to publish carousel"))
  /\ UNCHANGED <<igRequest, containerIds, creationId>>
  /\ UNCHANGED <<fanVars, srvVars, dlgVars, tblVars, extVars>>

\* the POST of the single image container (image_url: imageUrl) answers
IgContainerResponds ==
  /\ igPc = "container"
  /\ \E ans \in IgAnswers :
       /\ igCalls' = Append(igCalls,
                       IgCall("container", "imageUrl", <<>>, Null, ans.ok, ans.id))
       /\ IF ~ans.ok
            THEN /\ IgFinish(Failure("Failed to create media container"))
                 /\ UNCHANGED creationId
            ELSE /\ creationId' = ans.id
                 /\ igPc' = "delay"
                 /\ UNCHANGED igResponse
  /\ UNCHANGED <<igRequest, containerIds>>
  /\ UNCHANGED <<fanVars, srvVars, dlgVars, tblVars, extVars>>

\* await new Promise(resolve => setTimeout(resolve, 2000)) ends
IgDelayElapses ==
  /\ igPc = "delay"
  /\ igCalls' = Append(igCalls, IgDelay)
  /\ now' = now + ProcessingDelayMs
  /\ igPc' = "publish"
  /\ UNCHANGED <<igRequest, containerIds, creationId, igResponse>>
  /\ UNCHANGED <<store, asset, selectedPlatforms, pc, selectedConnections, jobPc,
                 jobConn, jobResult, results, isUploading, uploadingPlatforms,
                 adapterInvoked, calls>>
  /\ UNCHANGED <<srvVars, dlgVars, tblVars, extVars>>

\* media_publish of the single image (creation_id: containerData.id) answers
IgPublishResponds ==
  /\ igPc = "publish"
  /\ \E ans \in IgAnswers :
       /\ igCalls' = Append(igCalls,
                       IgCall("publish", "", <<>>, creationId, ans.ok, ans.id))
       /\ IgFinish(IF ans.ok THEN Success ELSE Failure("Failed to publish post"))
  /\ UNCHANGED <<igRequest, containerIds, creationId>>
  /\ UNCHANGED <<fanVars, srvVars, dlgVars, tblVars, extVars>>

\* a request arrives at instagram-post
InitInstagram ==
  /\ igPc = "request"
  /\ igRequest \in IgRequests
  /\ containerIds = <<>> /\ creationId = Null /\ igResponse = Null
  /\ igCalls = <<>>
  /\ store \in {[p \in Platforms |-> IF p = "instagram" THEN r ELSE Null] :
                  r \in InstagramRows}
  /\ now = StartTime
  /\ asset = [asset_type |-> "image", ready |-> TRUE]
  /\ selectedPlatforms = <<>>
  /\ FanIdle
  /\ SrvIdle
  /\ DlgIdle
  /\ TblIdle
  /\ ExtIdle

NextInstagram ==
  \/ IgReadBody
  \/ IgSelectResponds
  \/ IgChildResponds
  \/ IgParentResponds
  \/ IgCarouselPublishResponds
  \/ IgContainerResponds
  \/ IgDelayElapses
  \/ IgPublishResponds

SpecInstagram == InitInstagram /\ [][NextInstagram]_vars

(***************************************************************************)
(* checkExistingConnection of useYouTubeAuth, and what may write the       *)
(* youtube row of default_user while it runs.                              *)
(***************************************************************************)
\* tokenExpiry > now; the date of a null column is the epoch
CheckTokenValid(row, t) ==
  ~IsNull(row.token_expires_at) /\ Val(row.token_expires_at) > t

\* the select (.eq('is_active', true).single()) answers: an error or no row
\* ends the check, a valid token sets isConnected, an expired one is deleted
ChkSelectResponds ==
  /\ chkPc = "select"
  /\ \E error \in BOOLEAN, d \in Delays :
       LET row == store["youtube"]
       IN /\ now' = now + d
          /\ IF error \/ IsNull(row) \/ ~Val(row).is_active
               THEN chkPc' = "done" /\ UNCHANGED <<chkConnection, isConnected>>
             ELSE IF CheckTokenValid(Val(row), now')
               THEN /\ chkPc' = "done" /\ isConnected' = TRUE
                    /\ UNCHANGED chkConnection
             ELSE /\ chkPc' = "delete"
                  /\ chkConnection' = Some([id |-> storeId, row |-> Val(row)])
                  /\ UNCHANGED isConnected
  /\ UNCHANGED <<storeId, chkDeleted>>
  /\ UNCHANGED <<store, asset, selectedPlatforms, pc, selectedConnections, jobPc,
                 jobConn, jobResult, results, isUploading, uploadingPlatforms,
                 adapterInvoked, calls>>
  /\ UNCHANGED <<srvVars, dlgVars, tblVars, igVars, authVars, popVars, othVars>>

\* .delete().eq('id', connection.id) is carried out (or fails; its result is
\* not looked at)
ChkDeleteResponds ==
  /\ chkPc = "delete"
  /\ \E ok \in BOOLEAN, d \in Delays :
       /\ now' = now + d
       /\ IF ok /\ ~IsNull(store["youtube"]) /\ storeId = Val(chkConnection).id
            THEN /\ store' = [store EXCEPT !["youtube"] = Null]
                 /\ chkDeleted' = Some([row |-> Val(store["youtube"]), at |-> now'])
            ELSE UNCHANGED <<store, chkDeleted>>
  /\ chkPc' = "done"
  /\ UNCHANGED <<chkConnection, isConnected, storeId>>
  /\ UNCHANGED <<asset, selectedPlatforms, pc, selectedConnections, jobPc,
                 jobConn, jobResult, results, isUploading, uploadingPlatforms,
                 adapterInvoked, calls>>
  /\ UNCHANGED <<srvVars, dlgVars, tblVars, igVars, authVars, popVars, othVars>>

\* an upload handler persists a refreshed token: .update({access_token,
\* token_expires_at, updated_at}).eq('id', connection.id)
ChkTokenRefreshed ==
  /\ ~IsNull(store["youtube"])
  /\ Val(store["youtube"]).refresh_token # ""
  /\ Val(store["youtube"]).access_token # "tok1"
  /\ store' = UpdateToken(store, "tok1", Some(NewExpiresAt(now, 3600)))
  /\ UNCHANGED <<now, asset, selectedPlatforms, pc, selectedConnections, jobPc,
                 jobConn, jobResult, results, isUploading, uploadingPlatforms,
                 adapterInvoked, calls>>
  /\ UNCHANGED <<srvVars, dlgVars, tblVars, igVars, extVars>>

\* YouTubeCallback.handleCallback stores the connection: upsert on
\* (user_id, platform), which keeps the id of a row that is there
ChkReauthorized ==
  /\ IsNull(store["youtube"]) => storeId < MaxRows
  /\ ~IsNull(store["youtube"]) => Val(store["youtube"]).access_token # "tok1"
  /\ store' = [store EXCEPT !["youtube"] =
                 Some(Row("youtube", TRUE, "tok1", "rt0",
                          Some(NewExpiresAt(now, 3600))))]
  /\ storeId' = IF IsNull(store["youtube"]) THEN storeId + 1 ELSE storeId
  /\ UNCHANGED <<chkPc, chkConnection, isConnected, chkDeleted>>
  /\ UNCHANGED <<now, asset, selectedPlatforms, pc, selectedConnections, jobPc,
                 jobConn, jobResult, results, isUploading, uploadingPlatforms,
                 adapterInvoked, calls>>
  /\ UNCHANGED <<srvVars, dlgVars, tblVars, igVars, authVars, popVars, othVars>>

\* useYouTubeAuth.disconnect: .delete() of the youtube row of default_user
ChkUserDisconnects ==
  /\ ~IsNull(store["youtube"])
  /\ store' = [store EXCEPT !["youtube"] = Null]
  /\ UNCHANGED <<now, asset, selectedPlatforms, pc, selectedConnections, jobPc,
                 jobConn, jobResult, results, isUploading, uploadingPlatforms,
                 adapterInvoked, calls>>
  /\ UNCHANGED <<srvVars, dlgVars, tblVars, igVars, extVars>>

\* the hook is mounted: checkExistingConnection has sent its select
InitCheck ==
  /\ chkPc = "select" /\ chkConnection = Null /\ isConnected = FALSE
  /\ storeId = 1 /\ chkDeleted = Null
  /\ store \in {[p \in Platforms |-> IF p = "youtube" THEN r ELSE Null] :
                  r \in YouTubeRows \cup
                        {Null, Some(Row("youtube", FALSE, "tok0", "rt0", Null))}}
  /\ now = StartTime
  /\ asset = [asset_type |-> "video", ready |-> TRUE]
  /\ selectedPlatforms = <<>>
  /\ FanIdle /\ SrvIdle /\ DlgIdle /\ TblIdle /\ IgIdle
  /\ AuthIdle /\ PopIdle /\ OthIdle

NextCheck ==
  \/ ChkSelectResponds
  \/ ChkDeleteResponds
  \/ ChkTokenRefreshed
  \/ ChkReauthorized
  \/ ChkUserDisconnects

SpecCheck == InitCheck /\ [][NextCheck]_vars

(***************************************************************************)
(* completeAuth (the code exchange of the four callbacks) and disconnect,  *)
(* on the table of all users.                                              *)
(***************************************************************************)
\* the code paths of completeAuth: exchange_code of youtube-oauth and of
\* instagram-oauth (service role), handleCallback of YouTubeCallback and of
\* InstagramCallback (in the browser)
AuthPaths ==
  {"youtube_oauth", "instagram_oauth", "youtube_callback", "instagram_callback"}

AuthPlatform(path) ==
  IF path \in {"youtube_oauth", "youtube_callback"} THEN "youtube" ELSE "instagram"

\* the user_id a path writes: actualUserId / state || 'default_user' in the
\* functions, 'default_user' in YouTubeCallback
AuthUsers(path) ==
  IF path \in {"youtube_oauth", "instagram_oauth"} THEN Users ELSE {"default_user"}

\* the row-level policy of the table, USING (user_id = 'default_user'): the
\* rows a query made in the browser can see, delete or update
RlsVisible(r) == r.user_id = "default_user"

AuthReport(what) == authPc' = "done" /\ authReported' = what

\* a callback arrives with an authorization code
AuthStart ==
  /\ authPc \in {"idle", "done"}
  /\ \E path \in AuthPaths :
       \E u \in AuthUsers(path) :
         /\ authPath' = path
         /\ authUser' = u
  /\ authPc' = "exchange"
  /\ authReported' = "none"
  /\ tableAtStart' = table
  /\ lastDisconnect' = Null
  /\ UNCHANGED <<fanVars, srvVars, dlgVars, tblVars, igVars, chkVars, popVars,
                 othVars>>

\* the token endpoint answers the code exchange
AuthExchangeResponds ==
  /\ authPc = "exchange"
  /\ \E ok \in BOOLEAN :
       IF ~ok THEN AuthReport("error")
       ELSE /\ authPc' = IF authPath = "instagram_oauth" THEN "longlived" ELSE "lookup"
            /\ UNCHANGED authReported
  /\ UNCHANGED <<authPath, authUser, tableAtStart, lastDisconnect>>
  /\ UNCHANGED <<fanVars, srvVars, dlgVars, tblVars, igVars, chkVars, popVars,
                 othVars>>

\* instagram-oauth: the exchange for a long-lived token answers; on a failure
\* the short-lived token is used
AuthLongLivedResponds ==
  /\ authPc = "longlived"
  /\ authPc' = "lookup"
  /\ UNCHANGED <<authPath, authUser, authReported, tableAtStart, lastDisconnect>>
  /\ UNCHANGED <<fanVars, srvVars, dlgVars, tblVars, igVars, chkVars, popVars,
                 othVars>>

\* the channel / profile lookup answers; InstagramCallback then posts
\* INSTAGRAM_AUTH_SUCCESS, the other paths go on to store the connection
AuthLookupResponds ==
  /\ authPc = "lookup"
  /\ \E r \in {"ok", "no_channel", "error"} :
       /\ r = "no_channel" => AuthPlatform(authPath) = "youtube"
       /\ IF r # "ok" THEN AuthReport("error")
          ELSE IF authPath = "instagram_callback" THEN AuthReport("success")
          ELSE authPc' = "store" /\ UNCHANGED authReported
  /\ UNCHANGED <<authPath, authUser, tableAtStart, lastDisconnect>>
  /\ UNCHANGED <<fanVars, srvVars, dlgVars, tblVars, igVars, chkVars, popVars,
                 othVars>>

\* the upsert answers: only YouTubeCallback's payload has is_active: true
AuthStoreResponds ==
  /\ authPc = "store"
  /\ \E ok \in BOOLEAN :
       LET new == Upsert(table, nextId, authUser, AuthPlatform(authPath), "tok1",
                         authPath = "youtube_callback")
       IN IF ok
            THEN /\ Cardinality(new) > Cardinality(table) => nextId <= MaxRows
                 /\ table' = new
                 /\ nextId' = IF Cardinality(new) > Cardinality(table)
                                THEN nextId + 1 ELSE nextId
                 /\ AuthReport("success")
            ELSE /\ UNCHANGED <<table, nextId>>
                 /\ AuthReport("error")
  /\ UNCHANGED <<authPath, authUser, tableAtStart, lastDisconnect>>
  /\ UNCHANGED <<fanVars, srvVars, dlgVars, igVars, chkVars, popVars, othVars>>

\* the ways to disconnect: useInstagramAuth.disconnect and
\* useYouTubeAuth.disconnect (delete, in the browser), the disconnect action
\* of instagram-oauth (delete, service role), YouTubeConnectionManager
\* (is_active: false on the row it had read)
DisconnectPaths ==
  {"instagram_hook", "youtube_hook", "instagram_oauth", "youtube_manager"}

DisconnectPlatform(path) ==
  IF path \in {"youtube_hook", "youtube_manager"} THEN "youtube" ELSE "instagram"

\* the table after user u disconnects through a path; state is the state
\* parameter of the request to instagram-oauth ("" when it has none)
Disconnected(tbl, path, state) ==
  CASE path = "instagram_hook" ->
         {r \in tbl : ~(r.platform = "instagram" /\ RlsVisible(r))}
    [] path = "youtube_hook" ->
         {r \in tbl : ~(r.platform = "youtube" /\ r.user_id = "default_user"
                        /\ RlsVisible(r))}
    [] path = "instagram_oauth" ->
         {r \in tbl : ~(r.platform = "instagram"
                        /\ r.user_id = (IF state = "" THEN "default_user" ELSE state))}
    [] OTHER ->
         {IF r.platform = "youtube" /\ r.user_id = "default_user" /\ r.is_active
             /\ RlsVisible(r)
            THEN [r EXCEPT !.is_active = FALSE] ELSE r : r \in tbl}

\* the signed-in user u disconnects a platform
Disconnect ==
  /\ authPc \in {"idle", "done"}
  /\ \E u \in Users, path \in DisconnectPaths, state \in {""} \cup Users :
       /\ state # "" => (path = "instagram_oauth" /\ state = u)
       /\ table' = Disconnected(table, path, state)
       /\ lastDisconnect' = Some([user |-> u, platform |-> DisconnectPlatform(path),
                                  before |-> table, after |-> table'])
  /\ authPc' = "idle" /\ authPath' = "none" /\ authUser' = "none"
  /\ authReported' = "none" /\ tableAtStart' = {}
  /\ UNCHANGED nextId
  /\ UNCHANGED <<fanVars, srvVars, dlgVars, igVars, chkVars, popVars, othVars>>

InitAuth ==
  /\ table = {} /\ nextId = 1
  /\ store = [p \in Platforms |-> Null]
  /\ now = StartTime
  /\ asset = [asset_type |-> "video", ready |-> TRUE]
  /\ selectedPlatforms = <<>>
  /\ FanIdle /\ SrvIdle /\ DlgIdle /\ IgIdle /\ ExtIdle

NextAuth ==
  \/ AuthStart
  \/ AuthExchangeResponds
  \/ AuthLongLivedResponds
  \/ AuthLookupResponds
  \/ AuthStoreResponds
  \/ Disconnect

SpecAuth == InitAuth /\ [][NextAuth]_vars

(***************************************************************************)
(* A second call of uploadToSocialMedia on the same hook, overlapping the  *)
(* first; of its jobs only the end is followed.                            *)
(***************************************************************************)
\* setIsUploading(true); setUploadingPlatforms(selectedPlatforms)
OtherBegin ==
  /\ otherPc = "idle"
  /\ \E sel \in SeqsUpTo(Platforms, 1) \ {<<>>} :
       /\ otherSelected' = sel
       /\ uploadingPlatforms' = sel
  /\ otherPc' = "loading"
  /\ isUploading' = TRUE
  /\ UNCHANGED otherJobs
  /\ UNCHANGED <<store, now, asset, selectedPlatforms, pc, selectedConnections,
                 jobPc, jobConn, jobResult, results, adapterInvoked, calls>>
  /\ UNCHANGED <<srvVars, dlgVars, tblVars, igVars, chkVars, authVars, popVars>>

\* getConnectedPlatforms answers the second call: the early returns with
\* their finally, or the dispatch of its jobs
OtherDispatch ==
  /\ otherPc = "loading"
  /\ \E connections \in ConnectedPlatformLists(store, now) :
       LET sc == SelectConnections(connections, otherSelected)
       IN IF Len(sc) = 0
            THEN /\ otherPc' = "returned_early"
                 /\ isUploading' = FALSE
                 /\ uploadingPlatforms' = <<>>
                 /\ UNCHANGED otherJobs
            ELSE /\ otherPc' = "awaiting"
                 /\ otherJobs' = {sc[i].platform : i \in DOMAIN sc}
                 /\ uploadingPlatforms' = AppendPlatforms(uploadingPlatforms, sc)
                 /\ UNCHANGED isUploading
  /\ UNCHANGED otherSelected
  /\ UNCHANGED <<store, now, asset, selectedPlatforms, pc, selectedConnections,
                 jobPc, jobConn, jobResult, results, adapterInvoked, calls>>
  /\ UNCHANGED <<srvVars, dlgVars, tblVars, igVars, chkVars, authVars, popVars>>

\* a job of the second call ends, with a result or with an exception: its
\* finally takes the platform out of uploadingPlatforms
OtherJobEnds(p) ==
  /\ otherPc = "awaiting" /\ p \in otherJobs
  /\ otherJobs' = otherJobs \ {p}
  /\ uploadingPlatforms' = RemovePlatform(uploadingPlatforms, p)
  /\ UNCHANGED <<otherPc, otherSelected>>
  /\ UNCHANGED <<store, now, asset, selectedPlatforms, pc, selectedConnections,
                 jobPc, jobConn, jobResult, results, isUploading, adapterInvoked,
                 calls>>
  /\ UNCHANGED <<srvVars, dlgVars, tblVars, igVars, chkVars, authVars, popVars>>

\* Promise.all of the second call settles; its finally:
\* setIsUploading(false); setUploadingPlatforms([])
OtherReturns ==
  /\ otherPc = "awaiting" /\ otherJobs = {}
  /\ otherPc' = "returned"
  /\ isUploading' = FALSE
  /\ uploadingPlatforms' = <<>>
  /\ UNCHANGED <<otherSelected, otherJobs>>
  /\ UNCHANGED <<store, now, asset, selectedPlatforms, pc, selectedConnections,
                 jobPc, jobConn, jobResult, results, adapterInvoked, calls>>
  /\ UNCHANGED <<srvVars, dlgVars, tblVars, igVars, chkVars, authVars, popVars>>

InitOverlap ==
  /\ store \in ModalStores
  /\ now = StartTime
  /\ asset = [asset_type |-> "video", ready |-> TRUE]
  /\ selectedPlatforms \in {sel \in SeqsUpTo(Platforms, MaxSelected) : Len(sel) <= 2}
  /\ FanIdle /\ SrvIdle /\ DlgIdle /\ TblIdle /\ IgIdle /\ ExtIdle

NextOverlap ==
  \/ Next
  \/ OtherBegin
  \/ OtherDispatch
  \/ \E p \in Platforms : OtherJobEnds(p)
  \/ OtherReturns

SpecOverlap == InitOverlap /\ [][NextOverlap]_vars

(***************************************************************************)
(* The popup connect flow: useYouTubeAuth.connect (useAssetLibrary.ts      *)
(* 832-900) and useInstagramAuth.connect (SocialConnectionsContext.tsx     *)
(* 443-511), which differ in the url and the message names only, behind    *)
(* the Connect button of SocialProfiles.tsx (207-232).                     *)
(***************************************************************************)
\* the calls of connect()
Flows == 1..MaxConnects

\* the windows named 'youtube-auth' that are open
OpenWindows ==
  {popup[f] : f \in {g \in Flows : popup[g] > 0}} \ winClosed

\* what window.open does: a window (the open one of that name, else a new
\* one), null when the popup is blocked, or an exception
OpenResults == {"window", "null", "throws"}

\* the messages the callback page posts to window.opener
AuthMessages == {"SUCCESS", "ERROR"}

\* The Connect button (shown while the channel is not connected, disabled
\* while isConnecting) runs connect() to its end: connect() has no await, so
\* setIsConnecting(true), the try block and the finally block run in one
\* turn, and the state it leaves is the one of the finally block.
Connect ==
  /\ ~isConnected /\ ~isConnecting
  /\ \E f \in Flows, opened \in OpenResults :
       /\ outcome[f] = "none"
       /\ \A g \in Flows : g < f => outcome[g] # "none"
       /\ IF opened = "throws"
            THEN /\ outcome' = [outcome EXCEPT ![f] = "threw"]
                 /\ UNCHANGED <<popup, listener, checkClosed>>
            ELSE /\ popup' = [popup EXCEPT ![f] =
                        IF opened = "null" THEN 0
                        ELSE IF OpenWindows # {}
                               THEN CHOOSE w \in OpenWindows : TRUE
                               ELSE f]
                 /\ listener' = listener \cup {f}
                 /\ checkClosed' = checkClosed \cup {f}
                 /\ outcome' = [outcome EXCEPT ![f] = "pending"]
       /\ secondConnects' =
            IF \E g \in Flows : outcome[g] = "pending"
              THEN secondConnects + 1 ELSE secondConnects
  /\ isConnecting' = FALSE
  /\ UNCHANGED <<winClosed, chkVars>>
  /\ UNCHANGED <<fanVars, srvVars, dlgVars, tblVars, igVars, authVars, othVars>>

\* The callback page in the popup posts its message and closes its window;
\* the message event runs every registered handleMessage: each closes its
\* popup and removes itself, the success branch also sets isConnected.
\* Neither branch touches isConnecting or the interval.
PopupMessage ==
  /\ \E w \in OpenWindows, type \in AuthMessages :
       /\ isConnected' = (isConnected \/ (type = "SUCCESS" /\ listener # {}))
       /\ winClosed' = winClosed \cup {w}
                         \cup ({popup[f] : f \in listener} \ {0})
       /\ outcome' = [f \in Flows |->
                        IF f \in listener /\ outcome[f] = "pending"
                          THEN (IF type = "SUCCESS" THEN "success" ELSE "error")
                          ELSE outcome[f]]
  /\ listener' = {}
  /\ UNCHANGED <<isConnecting, popup, checkClosed, secondConnects>>
  /\ UNCHANGED <<chkPc, chkConnection, storeId, chkDeleted>>
  /\ UNCHANGED <<fanVars, srvVars, dlgVars, tblVars, igVars, authVars, othVars>>

\* the user closes the popup window
UserClosesPopup ==
  /\ \E w \in OpenWindows : winClosed' = winClosed \cup {w}
  /\ UNCHANGED <<isConnecting, popup, listener, checkClosed, outcome,
                 secondConnects, chkVars>>
  /\ UNCHANGED <<fanVars, srvVars, dlgVars, tblVars, igVars, authVars, othVars>>

\* A tick of a call's checkClosed interval that finds popup?.closed true
\* (a tick that finds it false, or popup null, changes nothing).
CheckClosedTick(f) ==
  /\ f \in checkClosed
  /\ popup[f] \in winClosed
  /\ checkClosed' = checkClosed \ {f}
  /\ isConnecting' = FALSE
  /\ listener' = listener \ {f}
  /\ outcome' = [outcome EXCEPT ![f] =
                   IF outcome[f] = "pending" THEN "closed" ELSE outcome[f]]
  /\ UNCHANGED <<popup, winClosed, secondConnects, chkVars>>
  /\ UNCHANGED <<fanVars, srvVars, dlgVars, tblVars, igVars, authVars, othVars>>

InitConnect ==
  /\ store = [p \in Platforms |-> Null]
  /\ now = StartTime
  /\ asset = [asset_type |-> "video", ready |-> TRUE]
  /\ selectedPlatforms = <<>>
  /\ FanIdle /\ SrvIdle /\ DlgIdle /\ TblIdle /\ IgIdle /\ ExtIdle

NextConnect ==
  \/ Connect
  \/ PopupMessage
  \/ UserClosesPopup
  \/ \E f \in Flows : CheckClosedTick(f)

SpecConnect == InitConnect /\ [][NextConnect]_vars

(***************************************************************************)
(* Properties of the fan-out (checked under Spec).                         *)
(***************************************************************************)

\* C1 (fan-out isolation): when the adapter of one selected, connected
\* platform throws, the call still returns one result per dispatched
\* platform, in which every sibling job that yielded a result finds it.
C1_FanOutIsolation ==
  \A p, q \in Platforms :
    (/\ pc = "returned"
     /\ p \in JobPlatforms /\ jobPc[p] = "rejected"
     /\ q \in JobPlatforms /\ jobPc[q] = "fulfilled")
      => /\ Len(results) = Len(selectedConnections)
         /\ Includes(results, Val(jobResult[q]))

\* C2: on every path the list uploadToSocialMedia returns holds exactly one
\* entry for each requested platform.
C2_OneEntryPerRequestedPlatform ==
  pc = "returned" =>
    /\ Len(results) = Len(selectedPlatforms)
    /\ \A p \in SeqToSet(selectedPlatforms) :
         Cardinality({i \in DOMAIN results : results[i].platform = p}) = 1

\* C3: a requested platform without an active credential, for which no job
\* was started, is reported as NotConnected, and its adapter is not invoked.
C3_NotConnectedReported ==
  \A p \in SeqToSet(selectedPlatforms) :
    (pc = "returned" /\ p \notin ActivePlatforms(store) /\ p \notin JobPlatforms)
      => /\ p \notin adapterInvoked
         /\ \E i \in DOMAIN results :
              /\ results[i].platform = p
              /\ ~results[i].success
              /\ results[i].error = "NotConnected"

\* the position of platform p in a list of platforms (0 when it is not in it)
IndexOf(s, p) == IF Includes(s, p) THEN CHOOSE i \in DOMAIN s : s[i] = p ELSE 0

\* C12: a job for a platform that is not compatible with the asset's type ends
\* with a failure, and no network call (token refresh, store write, function
\* invocation) was made for it; the youtube job is the only one that makes
\* calls.
C12_IncompatibleFailsWithoutCalls ==
  \A p \in JobPlatforms :
    (jobPc[p] = "fulfilled" /\ ~isPlatformCompatible(asset, p))
      => /\ ~Val(jobResult[p]).success
         /\ p = "youtube" => calls = <<>>

\* C15: the results uploadToSocialMedia returns are in the order of the
\* platform list it was called with.
C15_ResultsInInputOrder ==
  pc = "returned" =>
    \A i, j \in DOMAIN results :
      i < j => IndexOf(selectedPlatforms, results[i].platform)
                 < IndexOf(selectedPlatforms, results[j].platform)

(***************************************************************************)
(* Properties of the chunk loop (checked under SpecUpload).                *)
(***************************************************************************)

\* the chunk that reaches the end of the payload
IsFinalChunk(span) == span.last >= span.total - 1

\* the number of bytes of a chunk: chunk.length of slice(start, end)
BytesSent(span) == span.last - span.first + 1

\* the answer of a clean run: success to the final chunk, to any other chunk
\* a 308 that reports all of it stored (no Range, or a Range echoing its last
\* byte)
CleanAnswer(span, resp) ==
  IF IsFinalChunk(span)
    THEN resp.status \in {200, 201}
    ELSE /\ resp.status = 308
         /\ IsNull(resp.range) \/ Val(resp.range).last = span.last

CleanRun ==
  \A i \in DOMAIN responses : CleanAnswer(puts[i], responses[i])

\* C4: for a payload of S > 0 bytes, as long as every chunk is answered as in
\* a clean run, the Content-Range spans sent start at 0, each starts where
\* the one before it ended, none is empty, each names S as the total; and
\* when the final chunk has been answered the last span ends at S - 1: the
\* spans cover [0, S) exactly once.
C4_CleanRunCoversPayload ==
  (videoSize > 0 /\ CleanRun) =>
    /\ puts # <<>> => puts[1].first = 0
    /\ \A i \in 1..(Len(puts) - 1) : puts[i + 1].first = puts[i].last + 1
    /\ \A i \in DOMAIN puts :
         puts[i].first <= puts[i].last /\ puts[i].total = videoSize
    /\ (hpc = "done" /\ puts # <<>>) => puts[Len(puts)].last = videoSize - 1

\* a clean run of three chunks, the last of one byte, that succeeded
C4_Witness ==
  /\ hpc = "done" /\ response = Some(Success)
  /\ videoSize = 2 * chunkSize + 1
  /\ CleanRun
  /\ Len(puts) = 3
  /\ puts[3] = [first |-> 2 * chunkSize, last |-> 2 * chunkSize,
                total |-> 2 * chunkSize + 1]

\* C5: after a chunk PUT answered 308 with a Range header echoing byte r, the
\* next PUT starts at byte r + 1, whatever chunk was sent.
C5_ResumeAfterEchoedRange ==
  \A i \in 1..(Len(puts) - 1) :
    (responses[i].status = 308 /\ ~IsNull(responses[i].range))
      => puts[i + 1].first = Val(responses[i].range).last + 1

\* Range: bytes=0-5242879 after a 5 MiB chunk at offset 0, next PUT at 5242880
C5_Witness ==
  /\ Len(puts) >= 2
  /\ puts[1].first = 0 /\ puts[1].last = 5242879
  /\ responses[1].status = 308
  /\ responses[1].range = Some([first |-> 0, last |-> 5242879])
  /\ puts[2].first = 5242880

\* C6: after a chunk PUT answered 308 without a Range header, the next PUT
\* starts at the offset of the chunk just sent plus the number of bytes sent,
\* which is the byte after its last one.
C6_AdvanceBySentBytes ==
  \A i \in 1..(Len(puts) - 1) :
    (responses[i].status = 308 /\ IsNull(responses[i].range))
      => /\ puts[i + 1].first = puts[i].first + BytesSent(puts[i])
         /\ puts[i + 1].first = puts[i].last + 1

\* a chunk shorter than chunkSize answered 308 without Range
C6_Witness ==
  \E i \in 1..(Len(puts) - 1) :
    /\ responses[i].status = 308 /\ IsNull(responses[i].range)
    /\ BytesSent(puts[i]) > 0 /\ BytesSent(puts[i]) < chunkSize
    /\ puts[i + 1].first = puts[i].first + BytesSent(puts[i])

(***************************************************************************)
(* Properties of the token check (checked under SpecToken).                *)
(***************************************************************************)

\* the functions that check the token and refresh it
Refreshers == {"youtube_upload", "youtube_oauth"}

\* the row read, its expiry, and the clock when it was checked
Checked == impl \in Refreshers /\ ~IsNull(checkedAt)

OldExpiry == Val(connection).token_expires_at

InWindow == ~IsNull(OldExpiry) /\ Val(OldExpiry) - Val(checkedAt) <= RefreshWindowMs

\* C7: for a credential whose expiry is null or more than 5 minutes after the
\* check, the token check leaves the credential as it was: the access token
\* used is the stored one, no call goes to the token endpoint, nothing is
\* written to the store.
C7_FreshTokenUntouched ==
  (Checked /\ ~InWindow) =>
    /\ accessToken = Val(connection).access_token
    /\ \A i \in DOMAIN fetches : fetches[i].to \notin {"token", "store"}
    /\ refreshResponse = Null
    /\ store["youtube"] = connection

\* a credential with a refresh token expiring one millisecond after the
\* window, with which youtube-upload went on to the upload
C7_Witness ==
  /\ impl = "youtube_upload" /\ Checked
  /\ OldExpiry = Some(Val(checkedAt) + RefreshWindowMs + 1)
  /\ Val(connection).refresh_token = "rt0"
  /\ puts # <<>>
  /\ fetches[Len(fetches)] = Fetch("init", "tok0", TRUE)

\* the refresh was answered 2xx and what follows it is over
RefreshSucceeded ==
  /\ Checked /\ InWindow /\ Val(connection).refresh_token # ""
  /\ ~IsNull(refreshResponse) /\ Val(refreshResponse).kind = "ok"
  /\ hpc # "persist"

StoredExpiry == Val(store["youtube"]).token_expires_at

C9_NoRefreshTokenFailsAtOnce ==
  (Checked /\ InWindow /\ Val(connection).refresh_token = "") =>
    /\ hpc = "done"
    /\ ~IsNull(response) /\ ~Val(response).success
    /\ fetches = <<>>
    /\ puts = <<>>

\* C10: after a refresh that the token endpoint answered non-2xx, or that
\* threw, the handler is done with a failure, and neither the upload init nor
\* a chunk PUT was made.
C10_NoUploadAfterFailedRefresh ==
  (/\ Checked
   /\ ~IsNull(refreshResponse)
   /\ Val(refreshResponse).kind \in {"error", "throw"})
    => /\ hpc = "done"
       /\ ~IsNull(response) /\ ~Val(response).success
       /\ \A i \in DOMAIN fetches : fetches[i].to # "init"
       /\ puts = <<>>


\* the token check is over and the handler went on to the upload
TokenCheckPassed ==
  Checked /\ \E i \in DOMAIN fetches : fetches[i].to = "init"

\* the expiry of the access token the handler uses: the stored one, or the
\* one computed from the answer to the refresh
UsedExpiry ==
  IF accessToken = Val(connection).access_token THEN OldExpiry
  ELSE IF IsNull(Val(refreshResponse).expires_in) THEN Null
  ELSE Some(NewExpiresAt(now, Val(Val(refreshResponse).expires_in)))

\* C11: when the token check lets the handler go on, the access token sent
\* with the upload init has no expiry or one more than 5 minutes after the
\* end of the token check.
C11_TokenUsableForWindow ==
  TokenCheckPassed =>
    IsNull(UsedExpiry) \/ Val(UsedExpiry) > now + RefreshWindowMs

\* C14: a payload of 0 bytes or of more than the maximum is rejected before
\* the transfer: the handler ends with a failure, without an upload init and
\* without a chunk PUT.
C14_SizeGuardsBeforeTransfer ==
  (impl \in Refreshers /\ videoSize = videoBytes
     /\ (videoBytes = 0 \/ videoBytes > MaxVideoSize)
     /\ \E i \in DOMAIN fetches : fetches[i].to = "video" /\ fetches[i].ok)
    => /\ hpc = "done" /\ ~Val(response).success
       /\ \A i \in DOMAIN fetches : fetches[i].to # "init"
       /\ puts = <<>>


(***************************************************************************)
(* Properties of the chunk loop's failures and its end.                    *)
(***************************************************************************)

\* C18: a chunk PUT answered with a status other than 200, 201 and 308 is the
\* last PUT of the upload (it is not sent again and none follows it), and
\* the upload ends with a failure.
C18_HardFailureEndsUpload ==
  \A i \in DOMAIN responses :
    responses[i].status \notin {200, 201, 308}
      => /\ i = Len(puts)
         /\ hpc = "done"
         /\ response = Some(Failure("Upload failed"))

\* the second chunk answered 500
C18_Witness ==
  /\ Len(puts) = 2 /\ Len(responses) = 2
  /\ responses[1].status = 308
  /\ responses[2].status = 500
  /\ hpc = "done" /\ response = Some(Failure("Upload failed"))

\* C19: when the init POST is rejected, or answered without a session URL,
\* the upload ends with a failure and no chunk PUT is made.
C19_InitFailureEndsUpload ==
  \A i \in DOMAIN fetches :
    (fetches[i].to = "init" /\ ~fetches[i].ok)
      => /\ hpc = "done"
         /\ ~IsNull(response) /\ ~Val(response).success
         /\ puts = <<>>

\* an init answered 2xx without Location
C19_Witness ==
  /\ impl = "youtube_upload"
  /\ fetches # <<>>
  /\ fetches[Len(fetches)] = Fetch("init", "tok0", FALSE)
  /\ response = Some(Failure("No upload URL received from YouTube"))
  /\ puts = <<>>

\* C20: whatever the session URL answers, the upload ends.
C20_UploadEnds == <>(hpc = "done")


(***************************************************************************)
(* Properties of the modal (checked under SpecModal).                      *)
(***************************************************************************)

\* the table of compatible platforms per asset type
CompatibilityTable(type) ==
  CASE type = "video" -> {"youtube", "facebook"}
    [] type = "image" -> {"instagram", "facebook"}
    [] type = "content" -> {"twitter", "linkedin", "facebook"}
    [] OTHER -> {}

\* C13: isPlatformCompatible accepts a platform for the asset exactly when
\* the table has the pair, and the platforms selected when the connections
\* are loaded are exactly the connected platforms the table has for the
\* asset's type.
C13_CompatibilityIsTable ==
  /\ \A p \in ModalPlatforms :
       isPlatformCompatible(asset, p) <=> p \in CompatibilityTable(asset.asset_type)
  /\ ~IsNull(autoSelected) =>
       SeqToSet(Val(autoSelected)) =
         SeqToSet(PlatformsOf(connectedPlatforms))
           \cap CompatibilityTable(asset.asset_type)

\* C17: once the modal was closed during an upload, no further network call
\* is made by the jobs, and every job that had not ended is in the returned
\* list with the failure Cancelled.
C17_CancelStopsJobs ==
  ~IsNull(closedAt) =>
    /\ Len(calls) = Val(closedAt).calls
    /\ pc = "returned" =>
         \A p \in Val(closedAt).jobs :
           \E i \in DOMAIN results :
             /\ results[i].platform = p
             /\ ~results[i].success
             /\ results[i].error = "Cancelled"


(***************************************************************************)
(* Properties of the table (checked under SpecTable).                      *)
(***************************************************************************)

ActiveRows(u, p) ==
  {r \in table : r.user_id = u /\ r.platform = p /\ r.is_active}

\* C16: after any sequence of completeAuth, token refresh, soft disconnect
\* and hard disconnect, the table holds at most one active row per user and
\* platform.
C16_OneActivePerUserPlatform ==
  \A u \in Users, p \in Platforms : Cardinality(ActiveRows(u, p)) <= 1

\* both users hold an active youtube row, one of them from an authorization
\* made after the rows of two earlier ones, and with a refreshed token
C16_Witness ==
  \E r1, r2 \in table :
    /\ r1.user_id # r2.user_id
    /\ r1.platform = "youtube" /\ r2.platform = "youtube"
    /\ r1.is_active /\ r2.is_active
    /\ r1.id = MaxRows
    /\ r2.access_token = "tok1"

(***************************************************************************)
(* The ranges of the chunk PUTs (checked under SpecUpload).                *)
(***************************************************************************)

\* C21: every chunk PUT carries a well-formed inclusive range of the payload
\* of S bytes: 0 <= first <= last <= S - 1, a chunk that is not empty and
\* not longer than chunkSize, and S as the declared total, whatever the
\* server answered before.
C21_WellFormedRanges ==
  \A i \in DOMAIN puts :
    /\ 0 <= puts[i].first
    /\ puts[i].first <= puts[i].last
    /\ puts[i].last <= videoSize - 1
    /\ BytesSent(puts[i]) >= 1
    /\ BytesSent(puts[i]) <= chunkSize
    /\ puts[i].total = videoSize

\* C22: the chunks are sent in strictly increasing byte order: every chunk
\* PUT starts at a byte beyond the start of the PUT before it, whatever the
\* server answered.
C22_StrictlyIncreasingStarts ==
  \A i \in 1..(Len(puts) - 1) : puts[i + 1].first > puts[i].first

(***************************************************************************)
(* The store write of a refreshed token (checked under SpecToken).         *)
(***************************************************************************)

\* the updates of the youtube row that the handler has sent, in order
StoreWrites ==
  LET isStore(f) == f.to = "store" IN SelectSeq(fetches, isStore)

\* C23: the store write that persists a refreshed token is sent at most
\* twice (one retry); once it has failed for good (no write succeeded and
\* none is under way) the job has failed and nothing of the upload, neither
\* the download nor the upload init nor a chunk PUT, was done.
C23_PersistFailureFailsJob ==
  /\ Len(StoreWrites) <= 2
  /\ (/\ Checked
      /\ StoreWrites # <<>>
      /\ \A i \in DOMAIN StoreWrites : ~StoreWrites[i].ok
      /\ hpc # "persist")
       => /\ hpc = "done"
          /\ ~IsNull(response) /\ ~Val(response).success
          /\ \A i \in DOMAIN fetches : fetches[i].to \notin {"video", "init"}
          /\ puts = <<>>

(***************************************************************************)
(* The jobs of one call of uploadToSocialMedia (checked under Spec).       *)
(***************************************************************************)

\* the platforms whose job was started and has not ended with a result or an
\* exception
RunningJobs ==
  {p \in JobPlatforms : jobPc[p] \notin {"none", "fulfilled", "rejected"}}

\* C24: while a call of uploadToSocialMedia is under way, uploadingPlatforms
\* holds exactly the platforms whose job was dispatched and has not yet
\* yielded its result, each of them once.
C24_UploadingPlatformsAreRunningJobs ==
  pc \in {"loading", "awaiting"} =>
    /\ NoRepeat(uploadingPlatforms)
    /\ SeqToSet(uploadingPlatforms) = RunningJobs

\* C25: the jobs run concurrently: when uploadToSocialMedia awaits the
\* results (Promise.all), the job of every selected connection has been
\* started, so no job waits for the result of another.
C25_AllJobsStartedBeforeAwait ==
  pc = "awaiting" =>
    \A i \in DOMAIN selectedConnections :
      jobPc[selectedConnections[i].platform] # "none"

\* the job of the first connection still waits for its network call while the
\* job of a later connection has ended with its result
C25_Witness ==
  /\ pc = "awaiting"
  /\ Len(selectedConnections) >= 2
  /\ jobPc[selectedConnections[1].platform] \in {"refresh", "invoke"}
  /\ jobPc[selectedConnections[2].platform] = "fulfilled"

(***************************************************************************)
(* The refresh token after a refresh (checked under SpecToken).            *)
(***************************************************************************)

\* the refresh token the store is to hold after a refresh: the rotated one
\* when the answer carries one, else the one the row had
ExpectedRefreshToken(row, resp) ==
  IF resp.refresh_token # "" THEN resp.refresh_token ELSE row.refresh_token

\* the refreshed token was written to the store
Persisted ==
  /\ RefreshSucceeded
  /\ \E i \in DOMAIN StoreWrites : StoreWrites[i].ok

\* C28: once a refreshed token was written to the store, the stored row
\* holds the new access token, the new expiry and, when the answer of the
\* token endpoint carried a rotated refresh token, that refresh token; when
\* it carried none, the refresh token of the row is the one it was before.
C28_RotatedRefreshTokenPersisted ==
  Persisted =>
    LET row == Val(store["youtube"])
        resp == Val(refreshResponse)
    IN /\ row.access_token = "tok1"
       /\ row.token_expires_at = Some(NewExpiresAt(now, Val(resp.expires_in)))
       /\ row.refresh_token = ExpectedRefreshToken(Val(connection), resp)

(***************************************************************************)
(* The two server-side chunk loops (checked under SpecUpload).             *)
(***************************************************************************)

\* the chunk loop of the youtube-upload function has been entered
LoopEntered == impl = "youtube_upload" /\ (hpc \in {"loop", "put"} \/ puts # <<>>)

\* C29: for the payload and the answers of the session URL that the loop of
\* youtube-upload has met, the loop of youtube-oauth upload_video sends the
\* same sequence of Content-Range spans and ends with the same result.
C29_SameChunkSequence ==
  LoopEntered =>
    LoopTrace("youtube_upload", videoSize, 0, responses, <<>>)
      = LoopTrace("youtube_oauth", videoSize, 0, responses, <<>>)

(***************************************************************************)
(* The token check of the client and of upload_video (checked under        *)
(* SpecToken, on the rows, the times and the answers of the token endpoint *)
(* that its runs meet).                                                    *)
(***************************************************************************)

\* uploadToYouTube, from its token check to its invocation of upload_video,
\* for a row read at time t and an answer of the token endpoint at time t2:
\* does it invoke
ClientProceeds(a, row, t, resp, t2) ==
  LET conn == MapRow(row)
      entry == YouTubeEntry(a, conn, t)
      after == IF entry.pc # "refresh" THEN entry
               ELSE IF RefreshUsable(resp)
                 THEN YouTubeAfterTokenCheck(a, ClientRefreshed(conn, resp, t2), t2)
               ELSE YouTubeAfterTokenCheck(a, conn, t2)
  IN after.pc = "invoke"

\* the token check of upload_video for the same row and answer: does it let
\* the upload go on
ServerProceeds(row, t, resp) ==
  LET go == TokenCheck("youtube_oauth", row, t)
  IN IF go.pc = "refresh" THEN AfterRefresh("youtube_oauth", resp).pc # "done"
     ELSE go.pc # "done"

\* the token check of the row read has come to its decision
TokenDecided ==
  /\ Checked
  /\ (InWindow /\ Val(connection).refresh_token # "") => ~IsNull(refreshResponse)

\* C30: for every credential and every answer of the token endpoint, the
\* token check of uploadToYouTube lets the client invoke upload_video
\* exactly when the token check of upload_video lets the upload go on.
C30_SameTokenDecision ==
  TokenDecided =>
    LET resp == IF IsNull(refreshResponse)
                  THEN [kind |-> "error", expires_in |-> Null, refresh_token |-> ""]
                  ELSE Val(refreshResponse)
    IN ClientProceeds(asset, Val(connection), Val(checkedAt), resp, now)
         <=> ServerProceeds(Val(connection), Val(checkedAt), resp)

(***************************************************************************)
(* The container-publish protocol of instagram-post (checked under         *)
(* SpecInstagram).                                                         *)
(***************************************************************************)

\* the positions of the calls of a kind in the history
CallsOf(kind) == {k \in DOMAIN igCalls : igCalls[k].kind = kind}

\* C26: for a carousel of n > 1 items: the k-th call creates the child
\* container of the k-th item; the parent is created only after all n
\* children were created successfully, and names their ids in item order;
\* media_publish is called only for the parent, after the parent was created
\* successfully; after a failed create there is no publish call.
C26_CarouselOrdering ==
  IsCarouselBranch(igRequest) =>
    LET urls == igRequest.carouselUrls
        n == Len(urls)
    IN /\ CallsOf("container") = {}
       /\ \A k \in CallsOf("child") :
            /\ k <= n
            /\ igCalls[k].url = urls[k]
            /\ \A j \in 1..(k - 1) : igCalls[j].kind = "child" /\ igCalls[j].ok
       /\ \A k \in CallsOf("parent") :
            /\ k = n + 1
            /\ \A j \in 1..n : igCalls[j].kind = "child" /\ igCalls[j].ok
            /\ igCalls[k].children = [j \in 1..n |-> Val(igCalls[j].id)]
       /\ \A k \in CallsOf("publish") :
            /\ k = n + 2
            /\ igCalls[n + 1].kind = "parent" /\ igCalls[n + 1].ok
            /\ igCalls[k].creation_id = igCalls[n + 1].id
       /\ (\E k \in CallsOf("child") \cup CallsOf("parent") : ~igCalls[k].ok)
            => CallsOf("publish") = {}
       /\ igResponse = Some(Success) => CallsOf("publish") # {}

\* a carousel of three items was published, and the ids of its children did
\* not come in increasing order
C26_Witness ==
  /\ IsCarouselBranch(igRequest)
  /\ igRequest.carouselUrls = <<"u1", "u2", "u1">>
  /\ igResponse = Some(Success)
  /\ Len(igCalls) = 5
  /\ igCalls[4].children = <<3, 1, 2>>
  /\ igCalls[5].creation_id = igCalls[4].id

\* C27: every media_publish call names the id of a container that an
\* earlier call of the same request created successfully, and between that
\* call and the publish the processing delay has passed, on the single image
\* path and on the carousel path.
C27_PublishAfterDelay ==
  \A k \in CallsOf("publish") :
    \E j \in 1..(k - 1) :
      /\ igCalls[j].kind \in {"container", "parent"}
      /\ igCalls[j].ok
      /\ igCalls[j].id = igCalls[k].creation_id
      /\ \E d \in (j + 1)..(k - 1) : igCalls[d] = IgDelay

(***************************************************************************)
(* The request body of youtube-oauth (checked under SpecUpload).           *)
(***************************************************************************)

\* C31: the youtube-oauth handler reads the body of a request at most once:
\* an upload_video request with all its fields for an active credential
\* never ends with the failure of a second read of the body.
C31_BodyReadOnce ==
  impl = "youtube_oauth" =>
    ~(hpc = "done" /\ response = Some(Failure("Body already consumed")))

(***************************************************************************)
(* The connection check against concurrent writes (checked under           *)
(* SpecCheck).                                                             *)
(***************************************************************************)

\* C32: the row that checkExistingConnection deletes is never one whose
\* stored token_expires_at lies in the future at the time of the delete,
\* whatever refresh or re-authorization wrote the row between the check's
\* read and its delete.
C32_CheckDeletesOnlyExpired ==
  ~IsNull(chkDeleted) =>
    LET del == Val(chkDeleted)
    IN ~(/\ ~IsNull(del.row.token_expires_at)
         /\ Val(del.row.token_expires_at) > del.at)

(***************************************************************************)
(* completeAuth and disconnect (checked under SpecAuth).                   *)
(***************************************************************************)

\* a completeAuth has just reported success
AuthSucceeded == authPc = "done" /\ authReported = "success"

\* C33: right after a completeAuth reported success for (user, platform), the
\* table holds an active row of that user and platform, the row the
\* active-connection query returns, also when the row had been deactivated
\* by an earlier disconnect.
C33_ActiveAfterCompleteAuth ==
  AuthSucceeded => ActiveRows(authUser, AuthPlatform(authPath)) # {}

\* C34: a disconnect of a platform by a user leaves every row of another
\* user or of another platform as it was.
C34_DisconnectFrame ==
  ~IsNull(lastDisconnect) =>
    LET d == Val(lastDisconnect)
    IN \A r \in d.before \cup d.after :
         (r.user_id # d.user \/ r.platform # d.platform)
           => (r \in d.before /\ r \in d.after)

\* C35: a completeAuth that reported an error has left the table as it was
\* when it began; one that reported success has stored the credential: the
\* table holds the row of (user, platform) with the new token.
C35_WriteOnlyOnSuccess ==
  /\ (authPc = "done" /\ authReported = "error") => table = tableAtStart
  /\ AuthSucceeded =>
       \E r \in table :
         /\ r.user_id = authUser /\ r.platform = AuthPlatform(authPath)
         /\ r.access_token = "tok1"

(***************************************************************************)
(* The auto-close of the upload dialog (checked under SpecModal).          *)
(***************************************************************************)

\* C36: the dialog sets the timer that closes it after a full success only
\* when every platform the upload was started with has a successful result
\* in what uploadToSocialMedia returned.
C36_AutoCloseNeedsEverySuccess ==
  closeTimer =>
    \A i \in DOMAIN selectedPlatforms :
      \E j \in DOMAIN results :
        results[j].platform = selectedPlatforms[i] /\ results[j].success

(***************************************************************************)
(* isUploading and uploadingPlatforms after the call (checked under Spec). *)
(***************************************************************************)

\* C37: once a call of uploadToSocialMedia has returned (with results, with
\* [] because nothing was connected, or with [] after an exception), and no
\* other call is under way, isUploading is false and uploadingPlatforms is
\* empty.
C37_IdleAfterReturn ==
  (pc = "returned" /\ otherPc \notin {"loading", "awaiting"}) =>
    (~isUploading /\ uploadingPlatforms = <<>>)

\* the call returned [] after the exception of one job; another job of it
\* made its network call and ended with a result
C37_Witness ==
  /\ pc = "returned" /\ results = <<>>
  /\ \E p, q \in JobPlatforms :
       /\ jobPc[p] = "rejected"
       /\ jobPc[q] = "fulfilled" /\ "invoke" \in SeqToSet(calls)

(***************************************************************************)
(* Two overlapping calls of uploadToSocialMedia (checked under             *)
(* SpecOverlap).                                                           *)
(***************************************************************************)

\* C38: isUploading is true whenever a call of uploadToSocialMedia is under
\* way, and the platforms of the running jobs of a call stay in
\* uploadingPlatforms, also when another call on the same hook returns.
C38_UploadingWhileAnyCallRuns ==
  /\ (pc \in {"loading", "awaiting"} \/ otherPc \in {"loading", "awaiting"})
       => isUploading
  /\ pc = "awaiting" => RunningJobs \subseteq SeqToSet(uploadingPlatforms)
  /\ otherPc = "awaiting" => otherJobs \subseteq SeqToSet(uploadingPlatforms)

\* C39: in the popup connect flow isConnecting is true from the call of
\* connect() until the flow ends (success message, error message, or the
\* popup found closed), so no second connect() is made while a flow is
\* pending; and once a flow has ended its message listener is removed.
C39_ConnectingUntilFlowEnds ==
  /\ (\E f \in Flows : outcome[f] = "pending") => isConnecting
  /\ secondConnects = 0
  /\ \A f \in Flows :
       outcome[f] \in {"success", "error", "closed"} => f \notin listener

=============================================================================
